---- MODULE Spec2Model ----
(***************************************************************************)
(* A model of the AI Passport Photo Maker: the LUT engine                  *)
(* (utils/canvasUtils.ts, generateLUT), the crop resolver of the two       *)
(* Cropper components (components/Cropper.tsx and its earlier clamping     *)
(* variant), the sheet compositor (generatePassportSheet), the tone mapper *)
(* (applyCurves), the histogram analyzer (calculateHistogram), the         *)
(* rasterizer (getCroppedImg, createPreviewImage), the App component       *)
(* (App.tsx) and the AI service (services/geminiService.ts).               *)
(*                                                                         *)
(* JavaScript numbers are modelled as exact fractions <<n, d>> in lowest   *)
(* terms with d >= 0; d = 0 encodes the non-finite values: <<0,0>> is NaN, *)
(* <<1,0>> is +Infinity and <<-1,0>> is -Infinity.  IEEE-754 rounding of   *)
(* finite results is not modelled.                                         *)
(***************************************************************************)
EXTENDS Integers, Sequences, FiniteSets, TLC

VARIABLES
    \* --- LUT engine (generateLUT) ---
    points,        \* the caller's control-point array, a sequence of [x, y]
    lutState,      \* "idle" | "done" | "threw"
    lut,           \* the Uint8Array returned, a function 0..255 -> 0..255
    \* --- Cropper component ---
    build,         \* which Cropper is mounted: "current" | "legacy"
    img,           \* natural size [w, h] of the decoded source image
    imgStatus,     \* the <img> element: "loading" | "loaded" | "broken"
    container,     \* [w, h]: clientWidth / clientHeight of the container
    zoom,          \* useState(1)
    position,      \* useState({x: 0, y: 0})
    isDragging,    \* useState(false)
    dragStart,     \* dragStartRef.current / dragStart state
    drags,         \* number of drags started since the Cropper mounted
    cropPc,        \* handleCrop: "idle" | "awaiting" | "delivered" | "failed"
    cropCall,      \* the locals of the handleCrop call in flight or delivered
    cropped,       \* what onCropComplete received: output canvas [w, h]
    \* --- sheet compositor (generatePassportSheet) ---
    photo,         \* natural size [w, h] of the photo handed in
    sheetPc,       \* "start" | "drawing" | "resolved" | "rejected"
    sheetRow,      \* loop counter row
    sheetCol,      \* loop counter col
    canvasFilled,  \* the white fillRect has been issued
    cells,         \* sequence of the drawImage destination rectangles
    \* --- tone mapper (applyCurves) ---
    settings,      \* CurveSettings: [all, red, green, blue], each a curve
    curveImg,      \* the decoded source: [data, ok], data = RGBA bytes
    curvesPc,      \* "start" | "resolved" | "rejected" | "threw"
    data,          \* imageData.data handed to putImageData
    \* --- histogram analyzer (calculateHistogram) ---
    histImg,       \* the decoded source: [w, h, ok, runs], runs = [c, n]
    histCtx,       \* whether getContext('2d') yields a context
    histPc,        \* "start" | "resolved" | "rejected" | "threw"
    histCanvas,    \* [w, h] of the sampling canvas
    histogram,     \* bucket counts after the loop
    histResult,    \* the array the promise resolved with
    \* --- rasterizer (getCroppedImg, createPreviewImage) ---
    rasterOp,      \* which function was called
    rasterIn,      \* [width, height, ok]: pixelCrop, or the decoded image
    rasterPc,      \* "start" | "resolved" | "rejected"
    rasterTarget,  \* [width, height]: the drawImage destination size
    rasterOut,     \* [w, h] of the canvas behind the resolved data URL
    \* --- App component ---
    state,            \* AppState: "UPLOAD" | "CROP" | "PROCESS" | "PREVIEW"
    originalImage,    \* image token or Null
    croppedImage,     \* image token or Null
    processedImage,   \* image token or Null
    finalSheet,       \* sheet token or Null
    selectedClothing, \* ClothingOption
    isProcessing,     \* useState(false)
    error,            \* "null" or the message shown
    uploads,          \* number of images selected so far
    pendingCrops,     \* uploads with a getCroppedImg call of handleCrop pending
    run,              \* the handleProcess call in flight: [pc, croppedImage, aiResult]
    \* --- AI service (processBackground) ---
    apiKey,        \* whether process.env.API_KEY holds a key
    retryCount,    \* the parameter of the current (recursive) invocation
    aiPc,          \* "start" | "calling" | "sleeping" | "returned" | "threw"
    apiCalls,      \* number of generateContent calls issued
    sleeps,        \* the delays slept, in order
    attempts,      \* the errors caught, in order (one console.error each)
    thrown         \* the message of the error finally thrown, or "none"

lutVars   == <<points, lutState, lut>>
cropVars  == <<build, img, imgStatus, container, zoom, position, isDragging,
               dragStart, drags, cropPc, cropCall, cropped>>
sheetVars == <<photo, sheetPc, sheetRow, sheetCol, canvasFilled, cells>>
curveVars == <<settings, curveImg, curvesPc, data>>
histVars  == <<histImg, histCtx, histPc, histCanvas, histogram, histResult>>
rasterVars == <<rasterOp, rasterIn, rasterPc, rasterTarget, rasterOut>>
appVars   == <<state, originalImage, croppedImage, processedImage, finalSheet,
               selectedClothing, isProcessing, error, uploads, pendingCrops,
               run>>
aiVars    == <<apiKey, retryCount, aiPc, apiCalls, sleeps, attempts, thrown>>
otherVars == <<curveVars, histVars, rasterVars, appVars, aiVars>>
vars      == <<lutVars, cropVars, sheetVars, otherVars>>

\* what the actions of each later component leave alone
coreVars    == <<lutVars, cropVars, sheetVars>>
exceptCurve  == <<coreVars, histVars, rasterVars, appVars, aiVars>>
exceptHist   == <<coreVars, curveVars, rasterVars, appVars, aiVars>>
exceptRaster == <<coreVars, curveVars, histVars, appVars, aiVars>>
exceptAi     == <<coreVars, curveVars, histVars, rasterVars, appVars>>
\* the App drives the sheet compositor, so its actions state sheetVars themselves
exceptApp    == <<lutVars, cropVars, curveVars, histVars, rasterVars, aiVars>>

-----------------------------------------------------------------------------
(* JavaScript numbers as fractions *)

Abs(n) == IF n < 0 THEN -n ELSE n

Sign(n) == IF n < 0 THEN -1 ELSE IF n > 0 THEN 1 ELSE 0

RECURSIVE Gcd(_, _)
Gcd(a, b) == IF b = 0 THEN a ELSE Gcd(b, a % b)

\* the fraction n/d in lowest terms with a non-negative denominator
Norm(n, d) ==
    IF d = 0 THEN <<Sign(n), 0>>
    ELSE LET g == Gcd(Abs(n), Abs(d))
             s == IF d < 0 THEN -1 ELSE 1
         IN  <<s * (n \div g), s * (d \div g)>>

R(n)       == <<n, 1>>
Frac(n, d) == Norm(n, d)
NaN        == <<0, 0>>

IsNaN(a)    == a[1] = 0 /\ a[2] = 0
IsFinite(a) == a[2] # 0

\* the product, reduced crosswise before multiplying
RMul(a, b) ==
    IF a[2] = 0 \/ b[2] = 0 THEN Norm(Sign(a[1]) * Sign(b[1]), a[2] * b[2])
    ELSE LET g1 == Gcd(Abs(a[1]), b[2])
             g2 == Gcd(Abs(b[1]), a[2])
         IN  <<(a[1] \div g1) * (b[1] \div g2), (a[2] \div g2) * (b[2] \div g1)>>
Recip(b)   == IF b[1] < 0 THEN <<-b[2], -b[1]>> ELSE <<b[2], b[1]>>
RDiv(a, b) == RMul(a, Recip(b))
RNeg(a)    == <<-a[1], a[2]>>
\* the sum, over the least common denominator
RAdd(a, b) ==
    IF a[2] = 0 /\ b[2] = 0
    THEN (IF a[1] = b[1] THEN a ELSE NaN)
    ELSE IF a[2] = 0 \/ b[2] = 0
    THEN Norm(a[1] * b[2] + b[1] * a[2], 0)
    ELSE LET g == Gcd(a[2], b[2])
         IN  Norm(a[1] * (b[2] \div g) + b[1] * (a[2] \div g),
                  (a[2] \div g) * b[2])
RSub(a, b) == RAdd(a, RNeg(b))

\* the relational operators: every comparison with NaN is false
RLt(a, b) ==
    /\ ~IsNaN(a) /\ ~IsNaN(b)
    /\ IF a[2] = 0 /\ b[2] = 0 THEN a[1] < b[1]
       ELSE a[1] * b[2] < b[1] * a[2]
RLe(a, b) == RLt(a, b) \/ (~IsNaN(a) /\ a = b)
RGt(a, b) == RLt(b, a)
RGe(a, b) == RLe(b, a)

\* Math.max / Math.min: NaN if either argument is NaN
MathMax(a, b) == IF IsNaN(a) \/ IsNaN(b) THEN NaN ELSE IF RLt(a, b) THEN b ELSE a
MathMin(a, b) == IF IsNaN(a) \/ IsNaN(b) THEN NaN ELSE IF RLt(b, a) THEN b ELSE a

\* truncation toward zero of a finite number
Trunc(a) ==
    IF a[1] >= 0 THEN a[1] \div a[2] ELSE -((-a[1]) \div a[2])

\* the ToUint8 conversion of a store into a Uint8Array: NaN and the
\* infinities become 0, anything else is truncated and taken modulo 256
ToUint8(a) == IF ~IsFinite(a) THEN 0 ELSE Trunc(a) % 256

-----------------------------------------------------------------------------
(* LUT engine: generateLUT *)

\* bounds of the control-point inputs explored
MaxPoints == 3
PointXs   == {0, 100, 255}
PointYs   == {0, 100, 255, 300}
PointSet  == [x : PointXs, y : PointYs]

\* [...points].sort((a, b) => a.x - b.x): a stable sort by x
RECURSIVE InsertByX(_, _)
InsertByX(s, p) ==
    IF s = <<>> THEN <<p>>
    ELSE IF p.x < Head(s).x THEN <<p>> \o s
    ELSE <<Head(s)>> \o InsertByX(Tail(s), p)

\* SortByX with the sort left out: the points in the caller's order
SortByX_Unsorted(s) == s

RECURSIVE SortByX(_)
SortByX(s) ==
    IF s = <<>> THEN <<>>
    ELSE InsertByX(SortByX(SubSeq(s, 1, Len(s) - 1)), s[Len(s)])

\* the inner scan: the index j of the first adjacent pair bracketing i, or 0
FirstBracket(sorted, i) ==
    LET hits == {j \in 1..(Len(sorted) - 1) :
                    i >= sorted[j].x /\ i <= sorted[j + 1].x}
    IN  IF hits = {} THEN 0
        ELSE CHOOSE j \in hits : \A k \in hits : j <= k

\* LutValue with the interpolation parameter taken over one step too many
LutValue_StepOff(sorted, i) ==
    LET j  == FirstBracket(sorted, i)
        p1 == IF j = 0 THEN sorted[1] ELSE sorted[j]
        p2 == IF j = 0 THEN sorted[Len(sorted)] ELSE sorted[j + 1]
    IN  IF p1.x = p2.x THEN R(p1.y)
        ELSE LET t == Frac(i - p1.x, p2.x - p1.x + 1)
             IN  MathMax(R(0), MathMin(R(255),
                     RAdd(R(p1.y), RMul(t, R(p2.y - p1.y)))))

\* LutValue interpolating towards p2.y instead of by the difference p2.y - p1.y
LutValue_NoDelta(sorted, i) ==
    LET j  == FirstBracket(sorted, i)
        p1 == IF j = 0 THEN sorted[1] ELSE sorted[j]
        p2 == IF j = 0 THEN sorted[Len(sorted)] ELSE sorted[j + 1]
    IN  IF p1.x = p2.x THEN R(p1.y)
        ELSE LET t == Frac(i - p1.x, p2.x - p1.x)
             IN  MathMax(R(0), MathMin(R(255),
                     RAdd(R(p1.y), RMul(t, R(p2.y)))))

\* the value stored into lut[i], before the Uint8Array conversion
LutValue(sorted, i) ==
    LET j  == FirstBracket(sorted, i)
        p1 == IF j = 0 THEN sorted[1] ELSE sorted[j]
        p2 == IF j = 0 THEN sorted[Len(sorted)] ELSE sorted[j + 1]
    IN  IF p1.x = p2.x THEN R(p1.y)
        ELSE LET t == Frac(i - p1.x, p2.x - p1.x)
             IN  MathMax(R(0), MathMin(R(255),
                     RAdd(R(p1.y), RMul(t, R(p2.y - p1.y)))))

\* generateLUT for a non-empty array
generateLUT(pts) ==
    LET sorted == SortByX(pts)
    IN  [i \in 0..255 |-> ToUint8(LutValue(sorted, i))]

NoLut == [i \in 0..255 |-> 0]

\* the caller assembles a curve, one control point at a time
AddPoint(p) ==
    /\ lutState = "idle"
    /\ Len(points) < MaxPoints
    /\ points' = Append(points, p)
    /\ UNCHANGED <<lutState, lut>>
    /\ UNCHANGED <<cropVars, sheetVars, otherVars>>

\* a call of generateLUT(points); on an empty array sorted[0] is undefined and
\* reading p1.x throws
GenerateLUT ==
    /\ lutState = "idle"
    /\ IF points = <<>>
       THEN lutState' = "threw" /\ lut' = lut
       ELSE lutState' = "done" /\ lut' = generateLUT(points)
    /\ UNCHANGED points
    /\ UNCHANGED <<cropVars, sheetVars, otherVars>>

LutInit ==
    /\ points = <<>>
    /\ lutState = "idle"
    /\ lut = NoLut

-----------------------------------------------------------------------------
(* Cropper component: state, gestures and handleCrop *)

\* bounds of the inputs explored
MaxDrags == 2

ImageSizes      == {[w |-> 280, h |-> 360, ok |-> TRUE],
                    [w |-> 2000, h |-> 3000, ok |-> TRUE],
                    [w |-> 200, h |-> 3000, ok |-> TRUE],
                    [w |-> 0, h |-> 0, ok |-> FALSE]}
ContainerWidths == {390, 800}
ClientXs        == {0, 50}
ClientYs        == {0, 50}
Builds          == {"current", "legacy"}

\* Cropper.tsx
ASPECT_RATIO    == Frac(35, 45)
CROP_BOX_HEIGHT == 420
CROP_BOX_WIDTH  == RMul(R(CROP_BOX_HEIGHT), ASPECT_RATIO)
CONTAINER_HEIGHT == 520

\* the earlier Cropper
LEGACY_CROP_BOX_HEIGHT == 360
LEGACY_CROP_BOX_WIDTH  == RMul(R(LEGACY_CROP_BOX_HEIGHT), ASPECT_RATIO)
LEGACY_CONTAINER_HEIGHT == 500

\* the values the range input can deliver to setZoom(parseFloat(value))
SliderValues(b) ==
    IF b = "current"
    THEN {Frac(1, 10), R(1), Frac(3, 2), R(4)}
    ELSE {Frac(1, 5), R(1), Frac(3, 2), R(5)}

\* img.naturalWidth / img.naturalHeight: 0 until the element has decoded
NaturalWidth  == IF imgStatus = "loaded" THEN img.w ELSE 0
NaturalHeight == IF imgStatus = "loaded" THEN img.h ELSE 0

\* setupAutoCrop of Cropper.tsx: the zoom and position it sets
setupAutoCrop(nW, nH) ==
    LET widthZoom      == RMul(RDiv(CROP_BOX_WIDTH, R(nW)), Frac(28, 10))
        heightZoom     == RMul(RDiv(R(CROP_BOX_HEIGHT), R(nH)), Frac(15, 10))
        finalZoom      == MathMin(MathMax(widthZoom, heightZoom), R(4))
        renderedHeight == RMul(R(nH), finalZoom)
        initialY       == RNeg(RMul(renderedHeight, Frac(18, 100)))
    IN  [zoom |-> finalZoom, position |-> [x |-> R(0), y |-> initialY]]

\* handleCrop with the screen-to-natural scale inverted
handleCrop_InvertedScale(nW, nH, z, pos, cont) ==
    LET renderedWidth      == RMul(R(nW), z)
        renderedHeight     == RMul(R(nH), z)
        containerW         == R(cont.w)
        containerH         == R(cont.h)
        cropBoxLeft        == RDiv(RSub(containerW, CROP_BOX_WIDTH), R(2))
        cropBoxTop         == RDiv(RSub(containerH, R(CROP_BOX_HEIGHT)), R(2))
        imgLeftInContainer == RAdd(RDiv(RSub(containerW, renderedWidth), R(2)), pos.x)
        imgTopInContainer  == RAdd(RDiv(RSub(containerH, renderedHeight), R(2)), pos.y)
        offsetX            == RSub(cropBoxLeft, imgLeftInContainer)
        offsetY            == RSub(cropBoxTop, imgTopInContainer)
        scale              == RDiv(renderedWidth, R(nW))
    IN  [made |-> TRUE, build |-> "current", nW |-> nW, nH |-> nH, zoom |-> z,
         pos |-> pos,
         renderedWidth |-> renderedWidth, scale |-> scale,
         rawW   |-> RMul(CROP_BOX_WIDTH, scale),
         rawH   |-> RMul(R(CROP_BOX_HEIGHT), scale),
         x      |-> RMul(offsetX, scale),
         y      |-> RMul(offsetY, scale),
         width  |-> RMul(CROP_BOX_WIDTH, scale),
         height |-> RMul(R(CROP_BOX_HEIGHT), scale)]

\* handleCrop with the height taken from the crop box width
handleCrop_WidthAsHeight(nW, nH, z, pos, cont) ==
    LET renderedWidth      == RMul(R(nW), z)
        renderedHeight     == RMul(R(nH), z)
        containerW         == R(cont.w)
        containerH         == R(cont.h)
        cropBoxLeft        == RDiv(RSub(containerW, CROP_BOX_WIDTH), R(2))
        cropBoxTop         == RDiv(RSub(containerH, R(CROP_BOX_HEIGHT)), R(2))
        imgLeftInContainer == RAdd(RDiv(RSub(containerW, renderedWidth), R(2)), pos.x)
        imgTopInContainer  == RAdd(RDiv(RSub(containerH, renderedHeight), R(2)), pos.y)
        offsetX            == RSub(cropBoxLeft, imgLeftInContainer)
        offsetY            == RSub(cropBoxTop, imgTopInContainer)
        scale              == RDiv(R(nW), renderedWidth)
    IN  [made |-> TRUE, build |-> "current", nW |-> nW, nH |-> nH, zoom |-> z,
         pos |-> pos,
         renderedWidth |-> renderedWidth, scale |-> scale,
         rawW   |-> RMul(CROP_BOX_WIDTH, scale),
         rawH   |-> RMul(R(CROP_BOX_HEIGHT), scale),
         x      |-> RMul(offsetX, scale),
         y      |-> RMul(offsetY, scale),
         width  |-> RMul(CROP_BOX_WIDTH, scale),
         height |-> RMul(CROP_BOX_WIDTH, scale)]

\* handleCrop with the horizontal pan left out of the image position
handleCrop_PanIgnored(nW, nH, z, pos, cont) ==
    LET renderedWidth      == RMul(R(nW), z)
        renderedHeight     == RMul(R(nH), z)
        containerW         == R(cont.w)
        containerH         == R(cont.h)
        cropBoxLeft        == RDiv(RSub(containerW, CROP_BOX_WIDTH), R(2))
        cropBoxTop         == RDiv(RSub(containerH, R(CROP_BOX_HEIGHT)), R(2))
        imgLeftInContainer == RDiv(RSub(containerW, renderedWidth), R(2))
        imgTopInContainer  == RAdd(RDiv(RSub(containerH, renderedHeight), R(2)), pos.y)
        offsetX            == RSub(cropBoxLeft, imgLeftInContainer)
        offsetY            == RSub(cropBoxTop, imgTopInContainer)
        scale              == RDiv(R(nW), renderedWidth)
    IN  [made |-> TRUE, build |-> "current", nW |-> nW, nH |-> nH, zoom |-> z,
         pos |-> pos,
         renderedWidth |-> renderedWidth, scale |-> scale,
         rawW   |-> RMul(CROP_BOX_WIDTH, scale),
         rawH   |-> RMul(R(CROP_BOX_HEIGHT), scale),
         x      |-> RMul(offsetX, scale),
         y      |-> RMul(offsetY, scale),
         width  |-> RMul(CROP_BOX_WIDTH, scale),
         height |-> RMul(R(CROP_BOX_HEIGHT), scale)]

\* handleCrop of Cropper.tsx: its locals and the rectangle it passes on
handleCrop(nW, nH, z, pos, cont) ==
    LET renderedWidth      == RMul(R(nW), z)
        renderedHeight     == RMul(R(nH), z)
        containerW         == R(cont.w)
        containerH         == R(cont.h)
        cropBoxLeft        == RDiv(RSub(containerW, CROP_BOX_WIDTH), R(2))
        cropBoxTop         == RDiv(RSub(containerH, R(CROP_BOX_HEIGHT)), R(2))
        imgLeftInContainer == RAdd(RDiv(RSub(containerW, renderedWidth), R(2)), pos.x)
        imgTopInContainer  == RAdd(RDiv(RSub(containerH, renderedHeight), R(2)), pos.y)
        offsetX            == RSub(cropBoxLeft, imgLeftInContainer)
        offsetY            == RSub(cropBoxTop, imgTopInContainer)
        scale              == RDiv(R(nW), renderedWidth)
    IN  [made |-> TRUE, build |-> "current", nW |-> nW, nH |-> nH, zoom |-> z,
         pos |-> pos,
         renderedWidth |-> renderedWidth, scale |-> scale,
         rawW   |-> RMul(CROP_BOX_WIDTH, scale),
         rawH   |-> RMul(R(CROP_BOX_HEIGHT), scale),
         x      |-> RMul(offsetX, scale),
         y      |-> RMul(offsetY, scale),
         width  |-> RMul(CROP_BOX_WIDTH, scale),
         height |-> RMul(R(CROP_BOX_HEIGHT), scale)]

\* the earlier handleCrop with the crop box's left edge not halved
handleCropLegacy_LeftNotHalved(nW, nH, z, pos, cont) ==
    LET renderedWidth      == RMul(R(nW), z)
        renderedHeight     == RMul(R(nH), z)
        containerW         == R(cont.w)
        containerH         == R(cont.h)
        cropBoxLeft        == RSub(containerW, LEGACY_CROP_BOX_WIDTH)
        cropBoxTop         == RDiv(RSub(containerH, R(LEGACY_CROP_BOX_HEIGHT)), R(2))
        imgLeftInContainer == RAdd(RDiv(RSub(containerW, renderedWidth), R(2)), pos.x)
        imgTopInContainer  == RAdd(RDiv(RSub(containerH, renderedHeight), R(2)), pos.y)
        offsetX            == RSub(cropBoxLeft, imgLeftInContainer)
        offsetY            == RSub(cropBoxTop, imgTopInContainer)
        scale              == RDiv(R(nW), renderedWidth)
        cropX              == MathMax(R(0), RMul(offsetX, scale))
        cropY              == MathMax(R(0), RMul(offsetY, scale))
        cropW              == MathMin(R(nW), RMul(LEGACY_CROP_BOX_WIDTH, scale))
        cropH              == MathMin(R(nH), RMul(R(LEGACY_CROP_BOX_HEIGHT), scale))
    IN  [made |-> TRUE, build |-> "legacy", nW |-> nW, nH |-> nH, zoom |-> z,
         pos |-> pos,
         renderedWidth |-> renderedWidth, scale |-> scale,
         rawW   |-> RMul(LEGACY_CROP_BOX_WIDTH, scale),
         rawH   |-> RMul(R(LEGACY_CROP_BOX_HEIGHT), scale),
         x      |-> cropX,
         y      |-> cropY,
         width  |-> cropW,
         height |-> cropH]

\* handleCrop of the earlier Cropper, which clamps the rectangle
handleCropLegacy(nW, nH, z, pos, cont) ==
    LET renderedWidth      == RMul(R(nW), z)
        renderedHeight     == RMul(R(nH), z)
        containerW         == R(cont.w)
        containerH         == R(cont.h)
        cropBoxLeft        == RDiv(RSub(containerW, LEGACY_CROP_BOX_WIDTH), R(2))
        cropBoxTop         == RDiv(RSub(containerH, R(LEGACY_CROP_BOX_HEIGHT)), R(2))
        imgLeftInContainer == RAdd(RDiv(RSub(containerW, renderedWidth), R(2)), pos.x)
        imgTopInContainer  == RAdd(RDiv(RSub(containerH, renderedHeight), R(2)), pos.y)
        offsetX            == RSub(cropBoxLeft, imgLeftInContainer)
        offsetY            == RSub(cropBoxTop, imgTopInContainer)
        scale              == RDiv(R(nW), renderedWidth)
        cropX              == MathMax(R(0), RMul(offsetX, scale))
        cropY              == MathMax(R(0), RMul(offsetY, scale))
        cropW              == MathMin(R(nW), RMul(LEGACY_CROP_BOX_WIDTH, scale))
        cropH              == MathMin(R(nH), RMul(R(LEGACY_CROP_BOX_HEIGHT), scale))
    IN  [made |-> TRUE, build |-> "legacy", nW |-> nW, nH |-> nH, zoom |-> z,
         pos |-> pos,
         renderedWidth |-> renderedWidth, scale |-> scale,
         rawW   |-> RMul(LEGACY_CROP_BOX_WIDTH, scale),
         rawH   |-> RMul(R(LEGACY_CROP_BOX_HEIGHT), scale),
         x      |-> cropX,
         y      |-> cropY,
         width  |-> cropW,
         height |-> cropH]

NoCall ==
    [made |-> FALSE, build |-> "current", nW |-> 0, nH |-> 0, zoom |-> R(0),
     pos |-> [x |-> R(0), y |-> R(0)],
     renderedWidth |-> R(0), scale |-> R(0), rawW |-> R(0), rawH |-> R(0),
     x |-> R(0), y |-> R(0), width |-> R(0), height |-> R(0)]

\* canvas.width = v / canvas.height = v: the unsigned long conversion of the
\* reflected attribute (NaN becomes 0, the fraction is dropped, and a value
\* that wraps past 2^31 - 1 falls back to the attribute's default)
CanvasDim(v, default) ==
    IF ~IsFinite(v) THEN 0
    ELSE IF Trunc(v) < 0 THEN default
    ELSE Trunc(v)

MAX_HEIGHT == 2048

\* getCroppedImg, onload: the size of the canvas it draws into
getCroppedImg(pixelCrop) ==
    LET capped       == RGt(pixelCrop.height, R(MAX_HEIGHT))
        scale        == RDiv(R(MAX_HEIGHT), pixelCrop.height)
        targetWidth  == IF capped THEN RMul(pixelCrop.width, scale) ELSE pixelCrop.width
        targetHeight == IF capped THEN R(MAX_HEIGHT) ELSE pixelCrop.height
    IN  [w |-> CanvasDim(targetWidth, 300), h |-> CanvasDim(targetHeight, 150)]

NoCanvas == [w |-> 0, h |-> 0]
Origin   == [x |-> R(0), y |-> R(0)]

CropInit ==
    /\ build \in Builds
    /\ img \in ImageSizes
    /\ container \in [w : ContainerWidths,
                      h : {IF build = "current" THEN CONTAINER_HEIGHT
                           ELSE LEGACY_CONTAINER_HEIGHT}]
    /\ imgStatus = "loading"
    /\ zoom = R(1)
    /\ position = Origin
    /\ isDragging = FALSE
    /\ dragStart = Origin
    /\ drags = 0
    /\ cropPc = "idle"
    /\ cropCall = NoCall
    /\ cropped = NoCanvas

\* the <img> element finishes decoding; Cropper.tsx then runs setupAutoCrop
ImgLoad ==
    /\ imgStatus = "loading"
    /\ img.ok
    /\ imgStatus' = "loaded"
    /\ IF build = "current"
       THEN /\ zoom' = setupAutoCrop(img.w, img.h).zoom
            /\ position' = setupAutoCrop(img.w, img.h).position
       ELSE UNCHANGED <<zoom, position>>
    /\ UNCHANGED <<build, img, container, isDragging, dragStart, drags,
                   cropPc, cropCall, cropped>>
    /\ UNCHANGED <<lutVars, sheetVars, otherVars>>

\* the <img> element fails to decode: naturalWidth stays 0, onload never runs
ImgError ==
    /\ imgStatus = "loading"
    /\ ~img.ok
    /\ imgStatus' = "broken"
    /\ UNCHANGED <<build, img, container, zoom, position, isDragging,
                   dragStart, drags, cropPc, cropCall, cropped>>
    /\ UNCHANGED <<lutVars, sheetVars, otherVars>>

\* the range input: setZoom(parseFloat(e.target.value))
SetZoom(z) ==
    /\ cropPc \in {"idle", "failed"}
    /\ z \in SliderValues(build)
    /\ zoom' = z
    /\ UNCHANGED <<build, img, imgStatus, container, position, isDragging,
                   dragStart, drags, cropPc, cropCall, cropped>>
    /\ UNCHANGED <<lutVars, sheetVars, otherVars>>

\* handlePointerDown / handleMouseDown with the primary button
HandlePointerDown(cx, cy) ==
    /\ cropPc \in {"idle", "failed"}
    /\ drags < MaxDrags
    /\ isDragging' = TRUE
    /\ dragStart' = [x |-> RSub(R(cx), position.x), y |-> RSub(R(cy), position.y)]
    /\ drags' = drags + 1
    /\ UNCHANGED <<build, img, imgStatus, container, zoom, position,
                   cropPc, cropCall, cropped>>
    /\ UNCHANGED <<lutVars, sheetVars, otherVars>>

\* handlePointerMove / handleMouseMove
HandlePointerMove(cx, cy) ==
    /\ cropPc \in {"idle", "failed"}
    /\ isDragging
    /\ position' = [x |-> RSub(R(cx), dragStart.x), y |-> RSub(R(cy), dragStart.y)]
    /\ UNCHANGED <<build, img, imgStatus, container, zoom, isDragging,
                   dragStart, drags, cropPc, cropCall, cropped>>
    /\ UNCHANGED <<lutVars, sheetVars, otherVars>>

\* handlePointerUp / handleMouseUp
HandlePointerUp ==
    /\ cropPc \in {"idle", "failed"}
    /\ isDragging
    /\ isDragging' = FALSE
    /\ UNCHANGED <<build, img, imgStatus, container, zoom, position,
                   dragStart, drags, cropPc, cropCall, cropped>>
    /\ UNCHANGED <<lutVars, sheetVars, otherVars>>

\* the rectangle the mounted Cropper resolves from its present state
ResolveCrop ==
    IF build = "current"
    THEN handleCrop(NaturalWidth, NaturalHeight, zoom, position, container)
    ELSE handleCropLegacy(NaturalWidth, NaturalHeight, zoom, position, container)

\* "Looks Good" / "Crop Photo": handleCrop up to its await of getCroppedImg.
\* The call works on the values it captured, so the gestures made while it
\* is awaiting are not explored.
HandleCrop ==
    /\ cropPc \in {"idle", "failed"}
    /\ cropCall' = ResolveCrop
    /\ cropPc' = "awaiting"
    /\ UNCHANGED <<build, img, imgStatus, container, zoom, position,
                   isDragging, dragStart, drags, cropped>>
    /\ UNCHANGED <<lutVars, sheetVars, otherVars>>

\* getCroppedImg: image.onload with a 2D context; the promise resolves and
\* handleCrop passes the result to onCropComplete
CropResolve ==
    /\ cropPc = "awaiting"
    /\ img.ok
    /\ cropped' = getCroppedImg(cropCall)
    /\ cropPc' = "delivered"
    /\ UNCHANGED <<build, img, imgStatus, container, zoom, position,
                   isDragging, dragStart, drags, cropCall>>
    /\ UNCHANGED <<lutVars, sheetVars, otherVars>>

\* getCroppedImg rejects (image.onerror, or no 2D context): handleCrop's
\* catch branch alerts and nothing reaches onCropComplete
CropReject ==
    /\ cropPc = "awaiting"
    /\ cropPc' = "failed"
    /\ cropCall' = NoCall
    /\ UNCHANGED <<build, img, imgStatus, container, zoom, position,
                   isDragging, dragStart, drags, cropped>>
    /\ UNCHANGED <<lutVars, sheetVars, otherVars>>

\* "Adjust Crop" after a delivered crop: App mounts a fresh Cropper
Remount ==
    /\ cropPc = "delivered"
    /\ imgStatus' = "loading"
    /\ zoom' = R(1)
    /\ position' = Origin
    /\ isDragging' = FALSE
    /\ dragStart' = Origin
    /\ drags' = 0
    /\ cropPc' = "idle"
    /\ cropCall' = NoCall
    /\ cropped' = NoCanvas
    /\ UNCHANGED <<build, img, container>>
    /\ UNCHANGED <<lutVars, sheetVars, otherVars>>

CropNext ==
    \/ ImgLoad
    \/ ImgError
    \/ \E z \in SliderValues(build) : SetZoom(z)
    \/ \E cx \in ClientXs, cy \in ClientYs : HandlePointerDown(cx, cy)
    \/ \E cx \in ClientXs, cy \in ClientYs : HandlePointerMove(cx, cy)
    \/ HandlePointerUp
    \/ HandleCrop
    \/ CropResolve
    \/ CropReject
    \/ Remount

-----------------------------------------------------------------------------
(* Sheet compositor: generatePassportSheet *)

PhotoSizes ==
    [w : {100, 280, 413, 1050}, h : {100, 360, 531}, ok : {TRUE}]
        \cup {[w |-> 0, h |-> 0, ok |-> FALSE]}

DPI             == 300
SHEET_WIDTH     == 6 * DPI
SHEET_HEIGHT    == 4 * DPI
MM_PER_INCH     == Frac(254, 10)
PHOTO_WIDTH_MM  == 35
PHOTO_HEIGHT_MM == 45
PHOTO_WIDTH_PX  == RMul(RDiv(R(PHOTO_WIDTH_MM), MM_PER_INCH), R(DPI))
PHOTO_HEIGHT_PX == RMul(RDiv(R(PHOTO_HEIGHT_MM), MM_PER_INCH), R(DPI))
GAP_MM          == 3
GAP_PX          == RMul(RDiv(R(GAP_MM), MM_PER_INCH), R(DPI))
COLS            == 4
ROWS            == 2

TOTAL_CONTENT_WIDTH ==
    RAdd(RMul(R(COLS), PHOTO_WIDTH_PX), RMul(R(COLS - 1), GAP_PX))
TOTAL_CONTENT_HEIGHT ==
    RAdd(RMul(R(ROWS), PHOTO_HEIGHT_PX), RMul(R(ROWS - 1), GAP_PX))

\* START_X without the division by two: the whole slack on the left
START_X_NotHalved == RSub(R(SHEET_WIDTH), TOTAL_CONTENT_WIDTH)

START_X == RDiv(RSub(R(SHEET_WIDTH), TOTAL_CONTENT_WIDTH), R(2))
START_Y == RDiv(RSub(R(SHEET_HEIGHT), TOTAL_CONTENT_HEIGHT), R(2))

\* const x of the loop body, tabulated over the columns
CellXs ==
    [col \in 0..(COLS - 1) |->
        RAdd(START_X, RMul(R(col), RAdd(PHOTO_WIDTH_PX, GAP_PX)))]
CellX(col) == CellXs[col]

\* const y stepping by the photo width instead of the photo height
CellY_WidthStride(row) == RAdd(START_Y, RMul(R(row), RAdd(PHOTO_WIDTH_PX, GAP_PX)))

\* const y of the loop body, tabulated over the rows
CellYs ==
    [row \in 0..(ROWS - 1) |->
        RAdd(START_Y, RMul(R(row), RAdd(PHOTO_HEIGHT_PX, GAP_PX)))]
CellY(row) == CellYs[row]

\* DrawnCell without the destination size, ctx.drawImage(photo, x, y): the
\* photo at its own size
DrawnCell_SourceSize(row, col) ==
    [row |-> row, col |-> col, x |-> CellX(col), y |-> CellY(row),
     w |-> R(photo.w), h |-> R(photo.h),
     srcW |-> photo.w, srcH |-> photo.h]

\* ctx.drawImage(photo, x, y, PHOTO_WIDTH_PX, PHOTO_HEIGHT_PX)
DrawnCell(row, col) ==
    [row |-> row, col |-> col, x |-> CellX(col), y |-> CellY(row),
     w |-> PHOTO_WIDTH_PX, h |-> PHOTO_HEIGHT_PX,
     srcW |-> photo.w, srcH |-> photo.h]

SheetInit ==
    /\ photo \in PhotoSizes
    /\ sheetPc = "start"
    /\ sheetRow = 0
    /\ sheetCol = 0
    /\ canvasFilled = FALSE
    /\ cells = <<>>

\* photo.onload up to the loops: the canvas is sized, the context acquired,
\* the background filled and the sheet outlined
SheetOnload ==
    /\ sheetPc = "start"
    /\ photo.ok
    /\ canvasFilled' = TRUE
    /\ sheetPc' = "drawing"
    /\ UNCHANGED <<photo, sheetRow, sheetCol, cells>>
    /\ UNCHANGED <<lutVars, cropVars, otherVars>>

\* photo.onload when getContext('2d') returns null: reject('Context failed')
SheetNoContext ==
    /\ sheetPc = "start"
    /\ photo.ok
    /\ sheetPc' = "rejected"
    /\ UNCHANGED <<photo, sheetRow, sheetCol, canvasFilled, cells>>
    /\ UNCHANGED <<lutVars, cropVars, otherVars>>

\* photo.onerror = reject
SheetOnerror ==
    /\ sheetPc = "start"
    /\ ~photo.ok
    /\ sheetPc' = "rejected"
    /\ UNCHANGED <<photo, sheetRow, sheetCol, canvasFilled, cells>>
    /\ UNCHANGED <<lutVars, cropVars, otherVars>>

\* one pass of the inner loop body
SheetDrawCell ==
    /\ sheetPc = "drawing"
    /\ sheetRow < ROWS
    /\ cells' = Append(cells, DrawnCell(sheetRow, sheetCol))
    /\ IF sheetCol + 1 < COLS
       THEN sheetCol' = sheetCol + 1 /\ sheetRow' = sheetRow
       ELSE sheetCol' = 0 /\ sheetRow' = sheetRow + 1
    /\ UNCHANGED <<photo, sheetPc, canvasFilled>>
    /\ UNCHANGED <<lutVars, cropVars, otherVars>>

\* the resolve moved into the outer loop: taken once a row is complete
SheetResolve_AfterFirstRow ==
    /\ sheetPc = "drawing"
    /\ sheetRow >= 1
    /\ sheetPc' = "resolved"
    /\ UNCHANGED <<photo, sheetRow, sheetCol, canvasFilled, cells>>
    /\ UNCHANGED <<lutVars, cropVars, otherVars>>

\* resolve(canvas.toDataURL('image/png', 1.0)) after the loops
SheetResolve ==
    /\ sheetPc = "drawing"
    /\ sheetRow = ROWS
    /\ sheetPc' = "resolved"
    /\ UNCHANGED <<photo, sheetRow, sheetCol, canvasFilled, cells>>
    /\ UNCHANGED <<lutVars, cropVars, otherVars>>

SheetNext ==
    \/ SheetOnload
    \/ SheetNoContext
    \/ SheetOnerror
    \/ SheetDrawCell
    \/ SheetResolve

-----------------------------------------------------------------------------
(* Tone mapper: applyCurves *)

MaxPixels == 2

\* the curves a caller passes in a CurveSettings: the identity, the inverse,
\* a lifted curve and the empty array
CurveChoices ==
    { <<[x |-> 0, y |-> 0], [x |-> 255, y |-> 255]>>,
      <<[x |-> 0, y |-> 255], [x |-> 255, y |-> 0]>>,
      <<[x |-> 0, y |-> 100], [x |-> 255, y |-> 255]>>,
      <<>> }

CurveSettings == [all : CurveChoices, red : CurveChoices,
                  green : CurveChoices, blue : CurveChoices]

\* RGBA quadruples of the decoded image
PixelBytes ==
    { <<0, 100, 255, 255>>, <<255, 0, 100, 128>>,
      <<100, 255, 0, 0>>, <<100, 100, 100, 255>> }

RECURSIVE PixelRows(_)
PixelRows(n) ==
    IF n = 0 THEN { <<>> }
    ELSE { row \o px : row \in PixelRows(n - 1), px \in PixelBytes }

\* ctx.getImageData(...).data of an image of 1..MaxPixels pixels; an image
\* that fails to decode has none
CurveImages ==
    { [data |-> d, ok |-> TRUE] :
        d \in UNION { PixelRows(n) : n \in 1..MaxPixels } }
        \cup { [data |-> <<>>, ok |-> FALSE] }

\* the channel LUT of the byte at 0-based offset k: R, G, B by k mod 4
ChannelCurve(s, k) ==
    CASE k % 4 = 0 -> s.red
      [] k % 4 = 1 -> s.green
      [] OTHER     -> s.blue

\* the loop with the two lookups exchanged: master first, then the channel
applyCurvesLoop_MasterFirst(d, s) ==
    [k \in 1..Len(d) |->
        IF (k - 1) % 4 = 3 THEN d[k]
        ELSE generateLUT(ChannelCurve(s, k - 1))[generateLUT(s.all)[d[k]]]]

\* the loop stepping over all four bytes: alpha goes through the master LUT
applyCurvesLoop_AlphaMapped(d, s) ==
    [k \in 1..Len(d) |->
        IF (k - 1) % 4 = 3 THEN generateLUT(s.all)[d[k]]
        ELSE generateLUT(s.all)[generateLUT(ChannelCurve(s, k - 1))[d[k]]]]

\* for (i = 0; i < data.length; i += 4): the bytes i, i+1, i+2 are replaced
\* by lutAll[lutR/G/B[...]], the byte i+3 is not written
applyCurvesLoop(d, s) ==
    [k \in 1..Len(d) |->
        IF (k - 1) % 4 = 3 THEN d[k]
        ELSE generateLUT(s.all)[generateLUT(ChannelCurve(s, k - 1))[d[k]]]]

\* one of the four generateLUT calls receives an empty array
SomeCurveEmpty(s) ==
    s.all = <<>> \/ s.red = <<>> \/ s.green = <<>> \/ s.blue = <<>>

CurvesInit ==
    /\ settings \in CurveSettings
    /\ curveImg \in CurveImages
    /\ curvesPc = "start"
    /\ data = <<>>

\* image.onload with a context and four non-empty curves: the loop runs,
\* putImageData, resolve(canvas.toDataURL(...))
CurvesOnload ==
    /\ curvesPc = "start"
    /\ curveImg.ok
    /\ ~SomeCurveEmpty(settings)
    /\ data' = applyCurvesLoop(curveImg.data, settings)
    /\ curvesPc' = "resolved"
    /\ UNCHANGED <<settings, curveImg>>
    /\ UNCHANGED exceptCurve

\* image.onload with a context and an empty curve: generateLUT throws inside
\* the handler, after getImageData and before the loop; neither resolve nor
\* reject is called
CurvesOnloadThrows ==
    /\ curvesPc = "start"
    /\ curveImg.ok
    /\ SomeCurveEmpty(settings)
    /\ curvesPc' = "threw"
    /\ UNCHANGED <<settings, curveImg, data>>
    /\ UNCHANGED exceptCurve

\* image.onload when getContext('2d') returns null: reject
CurvesNoContext ==
    /\ curvesPc = "start"
    /\ curveImg.ok
    /\ curvesPc' = "rejected"
    /\ UNCHANGED <<settings, curveImg, data>>
    /\ UNCHANGED exceptCurve

\* image.onerror = reject
CurvesOnerror ==
    /\ curvesPc = "start"
    /\ ~curveImg.ok
    /\ curvesPc' = "rejected"
    /\ UNCHANGED <<settings, curveImg, data>>
    /\ UNCHANGED exceptCurve

CurvesNext ==
    \/ CurvesOnload
    \/ CurvesOnloadThrows
    \/ CurvesNoContext
    \/ CurvesOnerror

-----------------------------------------------------------------------------
(* Histogram analyzer: calculateHistogram *)

\* RGB triples of the pixels sampled
Colours ==
    { <<0, 0, 0>>, <<255, 255, 255>>, <<100, 100, 100>>,
      <<255, 0, 0>>, <<0, 255, 0>> }

RECURSIVE UnitRuns(_)
UnitRuns(n) ==
    IF n = 0 THEN { <<>> }
    ELSE { rs \o <<[c |-> col, n |-> 1]>> : rs \in UnitRuns(n - 1), col \in Colours }

\* sizes of the solid-colour images, among them sizes above 256 on a side
SolidSizes ==
    { <<256, 256>>, <<512, 256>>, <<300, 400>>, <<257, 3>>, <<1000, 1>> }

\* the images handed in: rows of 1..MaxPixels arbitrary pixels, larger
\* images of one colour, and a source that fails to decode; the pixels are
\* given as runs [c, n] of n consecutive pixels of colour c
HistImages ==
    { [w |-> Len(rs), h |-> 1, ok |-> TRUE, runs |-> rs] :
        rs \in UNION { UnitRuns(n) : n \in 1..MaxPixels } }
      \cup
    { [w |-> sz[1], h |-> sz[2], ok |-> TRUE,
       runs |-> <<[c |-> col, n |-> sz[1] * sz[2]]>>] :
        sz \in SolidSizes, col \in Colours }
      \cup
    { [w |-> 0, h |-> 0, ok |-> FALSE, runs |-> <<>>] }

\* Math.round: the nearest integer, halves towards +Infinity
MathRound(a) ==
    LET y == RAdd(a, Frac(1, 2)) IN y[1] \div y[2]

\* brightness with the sum truncated instead of rounded
Brightness_Truncated(c) ==
    Trunc(RAdd(RAdd(RMul(Frac(299, 1000), R(c[1])),
                    RMul(Frac(587, 1000), R(c[2]))),
               RMul(Frac(114, 1000), R(c[3]))))

\* Math.round(0.299 * data[i] + 0.587 * data[i+1] + 0.114 * data[i+2])
Brightness(c) ==
    MathRound(RAdd(RAdd(RMul(Frac(299, 1000), R(c[1])),
                        RMul(Frac(587, 1000), R(c[2]))),
                   RMul(Frac(114, 1000), R(c[3]))))

\* const scale = Math.min(1, 256 / Math.max(image.width, image.height))
HistScale(im) ==
    MathMin(R(1), RDiv(R(256), MathMax(R(im.w), R(im.h))))

\* canvas.width = image.width * scale; canvas.height = image.height * scale
HistCanvasOf(im) ==
    [w |-> CanvasDim(RMul(R(im.w), HistScale(im)), 300),
     h |-> CanvasDim(RMul(R(im.h), HistScale(im)), 150)]

\* drawImage(image, 0, 0, canvas.width, canvas.height) and getImageData: an
\* image drawn at its own size keeps its pixels, a solid image resampled to
\* cw x ch gives cw * ch pixels of its colour
SampledRuns(im, cv) ==
    IF cv.w = im.w /\ cv.h = im.h THEN im.runs
    ELSE <<[c |-> im.runs[1].c, n |-> cv.w * cv.h]>>

\* new Array(256).fill(0)
EmptyHistogram == [b \in 0..255 |-> 0]

\* the counting loop: histogram[brightness]++ for every pixel, a run at a time
RECURSIVE CountPixels(_, _, _)
CountPixels(runs, k, h) ==
    IF k > Len(runs) THEN h
    ELSE LET b == Brightness(runs[k].c)
         IN  CountPixels(runs, k + 1,
                 [h EXCEPT ![b] = h[b] + runs[k].n])

\* Math.max(...histogram)
HistMax(h) ==
    CHOOSE m \in { h[b] : b \in 0..255 } : \A b \in 0..255 : h[b] <= m

\* the counts resolved as they are
Normalised_Raw(h) == [b \in 0..255 |-> R(h[b])]

\* histogram.map(v => v / max)
Normalised(h) ==
    LET max == HistMax(h) IN [b \in 0..255 |-> RDiv(R(h[b]), R(max))]

NoResult == [b \in 0..255 |-> R(0)]

HistInit ==
    /\ histImg \in HistImages
    /\ histCtx \in BOOLEAN
    /\ histPc = "start"
    /\ histCanvas = [w |-> 0, h |-> 0]
    /\ histogram = EmptyHistogram
    /\ histResult = NoResult

\* image.onload with a context and a canvas of at least one pixel: sample,
\* count, normalise, resolve
HistOnload ==
    /\ histPc = "start"
    /\ histImg.ok
    /\ histCtx
    /\ LET cv == HistCanvasOf(histImg)
       IN  /\ cv.w > 0 /\ cv.h > 0
           /\ histCanvas' = cv
           /\ histogram' = CountPixels(SampledRuns(histImg, cv), 1, EmptyHistogram)
    /\ histResult' = Normalised(histogram')
    /\ histPc' = "resolved"
    /\ UNCHANGED <<histImg, histCtx>>
    /\ UNCHANGED exceptHist

\* image.onload with a context and a canvas whose width or height is 0:
\* getImageData(0, 0, sw, sh) with sw or sh zero throws an IndexSizeError
\* inside the handler; neither resolve nor reject is called
HistOnloadThrows ==
    /\ histPc = "start"
    /\ histImg.ok
    /\ histCtx
    /\ LET cv == HistCanvasOf(histImg)
       IN  /\ cv.w = 0 \/ cv.h = 0
           /\ histCanvas' = cv
    /\ histPc' = "threw"
    /\ UNCHANGED <<histImg, histCtx, histogram, histResult>>
    /\ UNCHANGED exceptHist

\* image.onload when getContext('2d') returns null: reject
HistNoContext ==
    /\ histPc = "start"
    /\ histImg.ok
    /\ ~histCtx
    /\ histCanvas' = HistCanvasOf(histImg)
    /\ histPc' = "rejected"
    /\ UNCHANGED <<histImg, histCtx, histogram, histResult>>
    /\ UNCHANGED exceptHist

\* image.onerror = reject
HistOnerror ==
    /\ histPc = "start"
    /\ ~histImg.ok
    /\ histPc' = "rejected"
    /\ UNCHANGED <<histImg, histCtx, histCanvas, histogram, histResult>>
    /\ UNCHANGED exceptHist

HistNext ==
    \/ HistOnload
    \/ HistOnloadThrows
    \/ HistNoContext
    \/ HistOnerror

-----------------------------------------------------------------------------
(* Rasterizer: getCroppedImg in its two capped versions, createPreviewImage *)

RasterOps == {"getCroppedImg", "getCroppedImg1024", "createPreviewImage"}

\* the sizes requested: portrait and landscape, below and above the caps
RasterInputs ==
    [width : {280, 1400, 3000, 4000}, height : {200, 360, 1800, 4200},
     ok : {TRUE}]
        \cup {[width |-> 0, height |-> 0, ok |-> FALSE]}

\* const MAX_HEIGHT = 1024 of the earlier getCroppedImg
MAX_HEIGHT_1024 == 1024

\* createPreviewImage's default maxSize
maxSize == 2048

\* targetWidth / targetHeight of getCroppedImg for a cap of maxHeight
CropTarget(pixelCrop, maxHeight) ==
    IF RGt(pixelCrop.height, R(maxHeight))
    THEN [width  |-> RMul(pixelCrop.width, RDiv(R(maxHeight), pixelCrop.height)),
          height |-> R(maxHeight)]
    ELSE [width |-> pixelCrop.width, height |-> pixelCrop.height]

\* width / height of createPreviewImage after the two nested tests
PreviewTarget(image) ==
    IF RGt(image.width, image.height)
    THEN IF RGt(image.width, R(maxSize))
         THEN [width  |-> R(maxSize),
               height |-> RMul(image.height, RDiv(R(maxSize), image.width))]
         ELSE [width |-> image.width, height |-> image.height]
    ELSE IF RGt(image.height, R(maxSize))
         THEN [width  |-> RMul(image.width, RDiv(R(maxSize), image.height)),
               height |-> R(maxSize)]
         ELSE [width |-> image.width, height |-> image.height]

\* the destination size the called function computes from its input
RasterTargetOf(op, in) ==
    LET asNumbers == [width |-> R(in.width), height |-> R(in.height)]
    IN  CASE op = "getCroppedImg"     -> CropTarget(asNumbers, MAX_HEIGHT)
          [] op = "getCroppedImg1024" -> CropTarget(asNumbers, MAX_HEIGHT_1024)
          [] OTHER                    -> PreviewTarget(asNumbers)

NoTarget == [width |-> R(0), height |-> R(0)]

RasterInit ==
    /\ rasterOp \in RasterOps
    /\ rasterIn \in RasterInputs
    /\ rasterPc = "start"
    /\ rasterTarget = NoTarget
    /\ rasterOut = NoCanvas

\* image.onload with a context: the canvas is sized, the image drawn and the
\* data URL resolved
RasterOnload ==
    /\ rasterPc = "start"
    /\ rasterIn.ok
    /\ rasterTarget' = RasterTargetOf(rasterOp, rasterIn)
    /\ rasterOut' = [w |-> CanvasDim(rasterTarget'.width, 300),
                     h |-> CanvasDim(rasterTarget'.height, 150)]
    /\ rasterPc' = "resolved"
    /\ UNCHANGED <<rasterOp, rasterIn>>
    /\ UNCHANGED exceptRaster

\* image.onload when getContext('2d') returns null: reject
RasterNoContext ==
    /\ rasterPc = "start"
    /\ rasterIn.ok
    /\ rasterTarget' = RasterTargetOf(rasterOp, rasterIn)
    /\ rasterPc' = "rejected"
    /\ UNCHANGED <<rasterOp, rasterIn, rasterOut>>
    /\ UNCHANGED exceptRaster

\* image.onerror: reject
RasterOnerror ==
    /\ rasterPc = "start"
    /\ ~rasterIn.ok
    /\ rasterPc' = "rejected"
    /\ UNCHANGED <<rasterOp, rasterIn, rasterTarget, rasterOut>>
    /\ UNCHANGED exceptRaster

RasterNext ==
    \/ RasterOnload
    \/ RasterNoContext
    \/ RasterOnerror

-----------------------------------------------------------------------------
(* App component: upload, crop, process, preview *)

MaxUploads == 2

\* images are tokens: what they are, which upload they derive from and, for a
\* sheet, what was tiled and how many cells the canvas held when it was
\* serialised
Null          == [k |-> "null", u |-> 0, of |-> "", cells |-> 0]
Upload(u)     == [k |-> "upload", u |-> u, of |-> "", cells |-> 0]
Cropped(u)    == [k |-> "crop", u |-> u, of |-> "", cells |-> 0]
AiResult(u)   == [k |-> "ai", u |-> u, of |-> "", cells |-> 0]
Sheet(src, n) == [k |-> "sheet", u |-> src.u, of |-> src.k, cells |-> n]

ClothingOptions == {"NONE", "MALE_BLAZER"}

AI_FAILED_MESSAGE    == "AI processing failed. Using original photo."
SHEET_FAILED_MESSAGE == "Failed to generate image. Please try again."

\* what generatePassportSheet finds when it decodes the data URL handed in
AppPhotos ==
    { [w |-> 413, h |-> 531, ok |-> TRUE], [w |-> 0, h |-> 0, ok |-> FALSE] }

NoRun == [pc |-> "idle", croppedImage |-> Null, aiResult |-> Null]

\* a call generatePassportSheet(...) from handleProcess: a fresh promise
StartSheet(p) ==
    /\ photo' = p
    /\ sheetPc' = "start"
    /\ sheetRow' = 0
    /\ sheetCol' = 0
    /\ canvasFilled' = FALSE
    /\ cells' = <<>>

\* the promise has been consumed; its canvas is unreachable
DropSheet ==
    /\ photo' = [w |-> 0, h |-> 0, ok |-> FALSE]
    /\ sheetPc' = "start"
    /\ sheetRow' = 0
    /\ sheetCol' = 0
    /\ canvasFilled' = FALSE
    /\ cells' = <<>>

AppInit ==
    /\ state = "UPLOAD"
    /\ originalImage = Null
    /\ croppedImage = Null
    /\ processedImage = Null
    /\ finalSheet = Null
    /\ selectedClothing = "NONE"
    /\ isProcessing = FALSE
    /\ error = "null"
    /\ uploads = 0
    /\ pendingCrops = {}
    /\ run = NoRun

\* handleImageSelected, called by the ImageUploader of the UPLOAD screen
HandleImageSelected ==
    /\ state = "UPLOAD"
    /\ uploads < MaxUploads
    /\ uploads' = uploads + 1
    /\ originalImage' = Upload(uploads + 1)
    /\ state' = "CROP"
    /\ error' = "null"
    /\ UNCHANGED <<croppedImage, processedImage, finalSheet, selectedClothing,
                   isProcessing, pendingCrops, run>>
    /\ UNCHANGED <<sheetVars, exceptApp>>

\* Cropper.handleCrop up to its await: getCroppedImg(imageSrc, ...) is pending
CropClick ==
    /\ state = "CROP"
    /\ originalImage # Null
    /\ pendingCrops' = pendingCrops \cup {originalImage.u}
    /\ UNCHANGED <<state, originalImage, croppedImage, processedImage,
                   finalSheet, selectedClothing, isProcessing, error, uploads,
                   run>>
    /\ UNCHANGED <<sheetVars, exceptApp>>

\* getCroppedImg resolves: onCropComplete(cropped), that is handleCropComplete
HandleCropComplete(u) ==
    /\ u \in pendingCrops
    /\ pendingCrops' = pendingCrops \ {u}
    /\ croppedImage' = Cropped(u)
    /\ state' = "PROCESS"
    /\ UNCHANGED <<originalImage, processedImage, finalSheet, selectedClothing,
                   isProcessing, error, uploads, run>>
    /\ UNCHANGED <<sheetVars, exceptApp>>

\* getCroppedImg rejects: the catch of handleCrop logs and alerts
CropFailed(u) ==
    /\ u \in pendingCrops
    /\ pendingCrops' = pendingCrops \ {u}
    /\ UNCHANGED <<state, originalImage, croppedImage, processedImage,
                   finalSheet, selectedClothing, isProcessing, error, uploads,
                   run>>
    /\ UNCHANGED <<sheetVars, exceptApp>>

\* the Adjust Crop button of the PROCESS screen
AdjustCrop ==
    /\ state = "PROCESS"
    /\ croppedImage # Null
    /\ state' = "CROP"
    /\ UNCHANGED <<originalImage, croppedImage, processedImage, finalSheet,
                   selectedClothing, isProcessing, error, uploads,
                   pendingCrops, run>>
    /\ UNCHANGED <<sheetVars, exceptApp>>

\* the clothing buttons of the PROCESS screen
SetSelectedClothing(c) ==
    /\ state = "PROCESS"
    /\ croppedImage # Null
    /\ selectedClothing' = c
    /\ UNCHANGED <<state, originalImage, croppedImage, processedImage,
                   finalSheet, isProcessing, error, uploads, pendingCrops, run>>
    /\ UNCHANGED <<sheetVars, exceptApp>>

\* handleReset: Start Over in the header, Cancel in the Cropper
HandleReset ==
    /\ state # "UPLOAD"
    /\ state' = "UPLOAD"
    /\ originalImage' = Null
    /\ croppedImage' = Null
    /\ processedImage' = Null
    /\ finalSheet' = Null
    /\ error' = "null"
    /\ selectedClothing' = "NONE"
    /\ UNCHANGED <<isProcessing, uploads, pendingCrops, run>>
    /\ UNCHANGED <<sheetVars, exceptApp>>

\* HandleProcess with the Generate Sheet button left enabled while
\* isProcessing
HandleProcess_NotDisabled ==
    /\ state = "PROCESS"
    /\ croppedImage # Null
    /\ isProcessing' = TRUE
    /\ error' = "null"
    /\ run' = [pc |-> "ai", croppedImage |-> croppedImage, aiResult |-> Null]
    /\ UNCHANGED <<state, originalImage, croppedImage, processedImage,
                   finalSheet, selectedClothing, uploads, pendingCrops>>
    /\ UNCHANGED <<sheetVars, exceptApp>>

\* handleProcess up to its first await: the Generate Sheet button of the
\* PROCESS screen, disabled while isProcessing
HandleProcess ==
    /\ state = "PROCESS"
    /\ croppedImage # Null
    /\ ~isProcessing
    /\ isProcessing' = TRUE
    /\ error' = "null"
    /\ run' = [pc |-> "ai", croppedImage |-> croppedImage, aiResult |-> Null]
    /\ UNCHANGED <<state, originalImage, croppedImage, processedImage,
                   finalSheet, selectedClothing, uploads, pendingCrops>>
    /\ UNCHANGED <<sheetVars, exceptApp>>

\* processBackground resolves: setProcessedImage(aiResult), then
\* generatePassportSheet(aiResult) is called
ProcessAiResolved ==
    /\ run.pc = "ai"
    /\ processedImage' = AiResult(run.croppedImage.u)
    /\ run' = [run EXCEPT !.pc = "sheet", !.aiResult = AiResult(run.croppedImage.u)]
    /\ \E p \in AppPhotos : StartSheet(p)
    /\ UNCHANGED <<state, originalImage, croppedImage, finalSheet,
                   selectedClothing, isProcessing, error, uploads, pendingCrops>>
    /\ UNCHANGED exceptApp

\* processBackground rejects: the catch calls generatePassportSheet(croppedImage)
ProcessAiRejected ==
    /\ run.pc = "ai"
    /\ run' = [run EXCEPT !.pc = "fallback"]
    /\ \E p \in AppPhotos : StartSheet(p)
    /\ UNCHANGED <<state, originalImage, croppedImage, processedImage,
                   finalSheet, selectedClothing, isProcessing, error, uploads,
                   pendingCrops>>
    /\ UNCHANGED exceptApp

\* the sheet of the AI result resolves: setFinalSheet, setState(PREVIEW),
\* finally setIsProcessing(false)
ProcessSheetResolved ==
    /\ run.pc = "sheet"
    /\ sheetPc = "resolved"
    /\ finalSheet' = Sheet(run.aiResult, Len(cells))
    /\ state' = "PREVIEW"
    /\ isProcessing' = FALSE
    /\ run' = NoRun
    /\ DropSheet
    /\ UNCHANGED <<originalImage, croppedImage, processedImage,
                   selectedClothing, error, uploads, pendingCrops>>
    /\ UNCHANGED exceptApp

\* the sheet of the AI result rejects: the catch calls
\* generatePassportSheet(croppedImage)
ProcessSheetRejected ==
    /\ run.pc = "sheet"
    /\ sheetPc = "rejected"
    /\ run' = [run EXCEPT !.pc = "fallback"]
    /\ \E p \in AppPhotos : StartSheet(p)
    /\ UNCHANGED <<state, originalImage, croppedImage, processedImage,
                   finalSheet, selectedClothing, isProcessing, error, uploads,
                   pendingCrops>>
    /\ UNCHANGED exceptApp

\* the fallback sheet resolves: setFinalSheet, setProcessedImage(croppedImage),
\* setState(PREVIEW), setError, finally setIsProcessing(false)
FallbackResolved ==
    /\ run.pc = "fallback"
    /\ sheetPc = "resolved"
    /\ finalSheet' = Sheet(run.croppedImage, Len(cells))
    /\ processedImage' = run.croppedImage
    /\ state' = "PREVIEW"
    /\ error' = AI_FAILED_MESSAGE
    /\ isProcessing' = FALSE
    /\ run' = NoRun
    /\ DropSheet
    /\ UNCHANGED <<originalImage, croppedImage, selectedClothing, uploads,
                   pendingCrops>>
    /\ UNCHANGED exceptApp

\* the fallback sheet rejects: setError, finally setIsProcessing(false)
FallbackRejected ==
    /\ run.pc = "fallback"
    /\ sheetPc = "rejected"
    /\ error' = SHEET_FAILED_MESSAGE
    /\ isProcessing' = FALSE
    /\ run' = NoRun
    /\ DropSheet
    /\ UNCHANGED <<state, originalImage, croppedImage, processedImage,
                   finalSheet, selectedClothing, uploads, pendingCrops>>
    /\ UNCHANGED exceptApp

\* a step of the generatePassportSheet call that handleProcess awaits
SheetStep ==
    /\ run.pc \in {"sheet", "fallback"}
    /\ SheetNext

AppNext ==
    \/ HandleImageSelected
    \/ CropClick
    \/ \E u \in 1..MaxUploads : HandleCropComplete(u)
    \/ \E u \in 1..MaxUploads : CropFailed(u)
    \/ AdjustCrop
    \/ \E c \in ClothingOptions : SetSelectedClothing(c)
    \/ HandleReset
    \/ HandleProcess
    \/ ProcessAiResolved
    \/ ProcessAiRejected
    \/ ProcessSheetResolved
    \/ ProcessSheetRejected
    \/ FallbackResolved
    \/ FallbackRejected
    \/ SheetStep

-----------------------------------------------------------------------------
(* AI service: processBackground *)

MAX_RETRIES   == 3
INITIAL_DELAY == 2000

\* an error message is modelled by the set of the substrings tested for that
\* it contains; Undefined is an error without a message
Markers       == {"429", "403", "API_KEY_INVALID"}
Undefined     == {"undefined"}
ErrorMessages == (SUBSET Markers) \cup {Undefined}

\* error.message?.includes(needle)
Includes(message, needle) == message # Undefined /\ needle \in message

API_KEY_MISSING_MESSAGE == "API Key is missing."
NO_IMAGE_MESSAGE        == "The AI returned a response but no image was found."
INVALID_KEY_MESSAGE     == "Invalid API Key."
RATE_LIMIT_MESSAGE      == "Maximum rate limit reached."
UNEXPECTED_MESSAGE      == "An unexpected error occurred during AI processing."
ORIGINAL_MESSAGE        == "error.message"

\* the retry test admitting one retry more
ShouldRetry_OneMore(message, count) ==
    Includes(message, "429") /\ count <= MAX_RETRIES

\* error.message?.includes("429") && retryCount < MAX_RETRIES
ShouldRetry(message, count) ==
    Includes(message, "429") /\ count < MAX_RETRIES

\* const delay = INITIAL_DELAY * Math.pow(2, retryCount)
Delay(count) == INITIAL_DELAY * 2 ^ count

\* what the catch block throws for an error that is not retried
Rethrown(message) ==
    IF Includes(message, "403") \/ Includes(message, "API_KEY_INVALID")
    THEN INVALID_KEY_MESSAGE
    ELSE IF Includes(message, "429") THEN RATE_LIMIT_MESSAGE
    ELSE IF message = Undefined THEN UNEXPECTED_MESSAGE
    ELSE ORIGINAL_MESSAGE

AiInit ==
    /\ apiKey \in BOOLEAN
    /\ retryCount = 0
    /\ aiPc = "start"
    /\ apiCalls = 0
    /\ sleeps = <<>>
    /\ attempts = <<>>
    /\ thrown = "none"

\* the API-key test fails: thrown before the try block
KeyMissing ==
    /\ aiPc = "start"
    /\ ~apiKey
    /\ aiPc' = "threw"
    /\ thrown' = API_KEY_MISSING_MESSAGE
    /\ UNCHANGED <<apiKey, retryCount, apiCalls, sleeps, attempts>>
    /\ UNCHANGED exceptAi

\* await ai.models.generateContent(...) is issued
CallApi ==
    /\ aiPc = "start"
    /\ apiKey
    /\ aiPc' = "calling"
    /\ apiCalls' = apiCalls + 1
    /\ UNCHANGED <<apiKey, retryCount, sleeps, attempts, thrown>>
    /\ UNCHANGED exceptAi

\* the response carries an inlineData part: return the data URL
ApiReturnsImage ==
    /\ aiPc = "calling"
    /\ aiPc' = "returned"
    /\ UNCHANGED <<apiKey, retryCount, apiCalls, sleeps, attempts, thrown>>
    /\ UNCHANGED exceptAi

\* the response carries no image: the error thrown in the try block is
\* caught by the same catch; its message holds none of the substrings
ApiReturnsNoImage ==
    /\ aiPc = "calling"
    /\ attempts' = Append(attempts, {})
    /\ aiPc' = "threw"
    /\ thrown' = NO_IMAGE_MESSAGE
    /\ UNCHANGED <<apiKey, retryCount, apiCalls, sleeps>>
    /\ UNCHANGED exceptAi

\* generateContent rejects with the given message: the catch block, up to
\* its await sleep(delay) or its throw
ApiFails(message) ==
    /\ aiPc = "calling"
    /\ attempts' = Append(attempts, message)
    /\ IF ShouldRetry(message, retryCount)
       THEN /\ sleeps' = Append(sleeps, Delay(retryCount))
            /\ aiPc' = "sleeping"
            /\ thrown' = thrown
       ELSE /\ sleeps' = sleeps
            /\ aiPc' = "threw"
            /\ thrown' = Rethrown(message)
    /\ UNCHANGED <<apiKey, retryCount, apiCalls>>
    /\ UNCHANGED exceptAi

\* the timer fires: return processBackground(..., retryCount + 1)
SleepDone ==
    /\ aiPc = "sleeping"
    /\ retryCount' = retryCount + 1
    /\ aiPc' = "start"
    /\ UNCHANGED <<apiKey, apiCalls, sleeps, attempts, thrown>>
    /\ UNCHANGED exceptAi

AiNext ==
    \/ KeyMissing
    \/ CallApi
    \/ ApiReturnsImage
    \/ ApiReturnsNoImage
    \/ \E message \in ErrorMessages : ApiFails(message)
    \/ SleepDone

-----------------------------------------------------------------------------
(* Specifications: one per component, the other components at rest *)

LutParked ==
    /\ points = <<>>
    /\ lutState = "idle"
    /\ lut = NoLut

CropParked ==
    /\ build = "current"
    /\ img = [w |-> 0, h |-> 0, ok |-> FALSE]
    /\ container = [w |-> 0, h |-> 0]
    /\ imgStatus = "loading"
    /\ zoom = R(1)
    /\ position = Origin
    /\ isDragging = FALSE
    /\ dragStart = Origin
    /\ drags = 0
    /\ cropPc = "idle"
    /\ cropCall = NoCall
    /\ cropped = NoCanvas

SheetParked ==
    /\ photo = [w |-> 0, h |-> 0, ok |-> FALSE]
    /\ sheetPc = "start"
    /\ sheetRow = 0
    /\ sheetCol = 0
    /\ canvasFilled = FALSE
    /\ cells = <<>>

CurvesParked ==
    /\ settings = [all |-> <<>>, red |-> <<>>, green |-> <<>>, blue |-> <<>>]
    /\ curveImg = [data |-> <<>>, ok |-> FALSE]
    /\ curvesPc = "start"
    /\ data = <<>>

HistParked ==
    /\ histImg = [w |-> 0, h |-> 0, ok |-> FALSE, runs |-> <<>>]
    /\ histCtx = FALSE
    /\ histPc = "start"
    /\ histCanvas = [w |-> 0, h |-> 0]
    /\ histogram = EmptyHistogram
    /\ histResult = NoResult

RasterParked ==
    /\ rasterOp = "getCroppedImg"
    /\ rasterIn = [width |-> 0, height |-> 0, ok |-> FALSE]
    /\ rasterPc = "start"
    /\ rasterTarget = NoTarget
    /\ rasterOut = NoCanvas

AiParked ==
    /\ apiKey = FALSE
    /\ retryCount = 0
    /\ aiPc = "start"
    /\ apiCalls = 0
    /\ sleeps = <<>>
    /\ attempts = <<>>
    /\ thrown = "none"

\* the App at rest is the App as constructed: AppInit
OtherParked == CurvesParked /\ HistParked /\ RasterParked /\ AppInit /\ AiParked

LutNext ==
    \/ \E p \in PointSet : AddPoint(p)
    \/ GenerateLUT

CoreParked == LutParked /\ CropParked /\ SheetParked

InitLut    == LutInit /\ CropParked /\ SheetParked /\ OtherParked
InitCrop   == LutParked /\ CropInit /\ SheetParked /\ OtherParked
InitSheet  == LutParked /\ CropParked /\ SheetInit /\ OtherParked
InitCurves == CoreParked /\ CurvesInit /\ HistParked /\ RasterParked /\ AppInit /\ AiParked
InitHist   == CoreParked /\ CurvesParked /\ HistInit /\ RasterParked /\ AppInit /\ AiParked
InitRaster == CoreParked /\ CurvesParked /\ HistParked /\ RasterInit /\ AppInit /\ AiParked
InitApp    == CoreParked /\ CurvesParked /\ HistParked /\ RasterParked /\ AppInit /\ AiParked
InitAi     == CoreParked /\ CurvesParked /\ HistParked /\ RasterParked /\ AppInit /\ AiInit

SpecLut   == InitLut /\ [][LutNext]_vars
SpecCrop  == InitCrop /\ [][CropNext]_vars
SpecSheet == InitSheet /\ [][SheetNext]_vars
SpecCurves == InitCurves /\ [][CurvesNext]_vars
SpecHist  == InitHist /\ [][HistNext]_vars
SpecRaster == InitRaster /\ [][RasterNext]_vars
SpecApp   == InitApp /\ [][AppNext]_vars

\* the steps by which a handleProcess run advances: processBackground
\* settles, the sheet promise advances and settles
RunStep ==
    \/ ProcessAiResolved
    \/ ProcessAiRejected
    \/ ProcessSheetResolved
    \/ ProcessSheetRejected
    \/ FallbackResolved
    \/ FallbackRejected
    \/ SheetStep

\* App under the proviso that the AI call and the sheet generation settle: a
\* pending await of handleProcess is eventually resumed
SpecAppFair == InitApp /\ [][AppNext]_vars /\ WF_vars(RunStep)

\* processBackground under the proviso that every API call settles and every
\* timer fires: a pending await is eventually resumed
SpecAi    == InitAi /\ [][AiNext]_vars /\ WF_vars(AiNext)

Init ==
    /\ LutInit /\ CropInit /\ SheetInit
    /\ CurvesInit /\ HistInit /\ RasterInit /\ AppInit /\ AiInit
Next ==
    \/ LutNext \/ CropNext \/ SheetNext
    \/ CurvesNext \/ HistNext \/ RasterNext \/ AppNext \/ AiNext
Spec == Init /\ [][Next]_vars

-----------------------------------------------------------------------------
(* Properties of the LUT engine, checked under SpecLut *)

Clamp255(a) == MathMax(R(0), MathMin(R(255), a))

PointsInRange == \A k \in 1..Len(points) : points[k].y \in 0..255
DistinctXs    == \A k, l \in 1..Len(points) : k # l => points[k].x # points[l].x

\* C1: every LUT entry is the interpolated value clamped to [0,255] and
\* truncated, also for a single point or duplicate x values with y outside
\* 0..255 (never the value modulo 256)
C1_EntriesClamped ==
    lutState = "done" =>
        \A i \in 0..255 :
            lut[i] = Trunc(Clamp255(LutValue(SortByX(points), i)))

\* C2: an intensity below the smallest control-point x maps to the first
\* point's y, one above the largest x to the last point's y (stated here for
\* curves with y in 0..255 and no repeated x)
C2_OutsideRangeHoldsEndpoint ==
    (lutState = "done" /\ PointsInRange /\ DistinctXs) =>
        LET sorted == SortByX(points)
        IN  \A i \in 0..255 :
                /\ i < sorted[1].x => lut[i] = sorted[1].y
                /\ i > sorted[Len(sorted)].x => lut[i] = sorted[Len(sorted)].y

IdentityCurve == {<<[x |-> 0, y |-> 0], [x |-> 255, y |-> 255]>>,
                  <<[x |-> 255, y |-> 255], [x |-> 0, y |-> 0]>>}
InverseCurve  == {<<[x |-> 0, y |-> 255], [x |-> 255, y |-> 0]>>,
                  <<[x |-> 255, y |-> 0], [x |-> 0, y |-> 255]>>}

\* C3: the control points {(0,0),(255,255)} give the identity map
C3_IdentityLut ==
    (lutState = "done" /\ points \in IdentityCurve) =>
        \A i \in 0..255 : lut[i] = i

C3_Witness ==
    lutState = "done" /\ points = <<[x |-> 0, y |-> 0], [x |-> 255, y |-> 255]>>

\* C4: the control points {(0,255),(255,0)} give the exact inversion
C4_InverseLut ==
    (lutState = "done" /\ points \in InverseCurve) =>
        \A i \in 0..255 : lut[i] = 255 - i

C4_Witness ==
    lutState = "done" /\ points = <<[x |-> 0, y |-> 255], [x |-> 255, y |-> 0]>>

-----------------------------------------------------------------------------
(* Properties of the crop resolver, checked under SpecCrop *)

BoxW(b) == IF b = "current" THEN CROP_BOX_WIDTH ELSE LEGACY_CROP_BOX_WIDTH
BoxH(b) == IF b = "current" THEN R(CROP_BOX_HEIGHT) ELSE R(LEGACY_CROP_BOX_HEIGHT)

\* a call made on a decoded image
CallOnImage == cropCall.made /\ cropCall.nW > 0 /\ cropCall.nH > 0

\* C5: the rectangle handed to getCroppedImg lies inside the source image
C5_RectInsideImage ==
    CallOnImage =>
        /\ RGe(cropCall.x, R(0))
        /\ RGe(cropCall.y, R(0))
        /\ RLe(RAdd(cropCall.x, cropCall.width), R(cropCall.nW))
        /\ RLe(RAdd(cropCall.y, cropCall.height), R(cropCall.nH))

\* C6: zoom 1, no pan, natural size equal to the crop box size: the crop is
\* the whole image, origin (0,0) and size naturalWidth x naturalHeight
C6_FullImageCrop ==
    ( /\ CallOnImage
      /\ cropCall.zoom = R(1)
      /\ cropCall.pos = Origin
      /\ R(cropCall.nW) = BoxW(cropCall.build)
      /\ R(cropCall.nH) = BoxH(cropCall.build) ) =>
        /\ cropCall.x = R(0)
        /\ cropCall.y = R(0)
        /\ cropCall.width = R(cropCall.nW)
        /\ cropCall.height = R(cropCall.nH)

C6_Witness ==
    /\ cropPc = "delivered"
    /\ cropCall.made
    /\ cropCall.zoom = R(1)
    /\ cropCall.pos = Origin
    /\ cropCall.nW = 280
    /\ cropCall.nH = 360
    /\ cropCall.build = "legacy"

\* the call the mounted Cropper would have made at twice the zoom
CallAtDoubleZoom ==
    IF cropCall.build = "current"
    THEN handleCrop(cropCall.nW, cropCall.nH, RMul(R(2), cropCall.zoom),
                    cropCall.pos, container)
    ELSE handleCropLegacy(cropCall.nW, cropCall.nH, RMul(R(2), cropCall.zoom),
                          cropCall.pos, container)

\* C7: before clamping the rectangle is cropBox / zoom on each axis, so twice
\* the zoom gives exactly half the width and half the height
C7_DoubleZoomHalves ==
    CallOnImage =>
        /\ cropCall.rawW = RDiv(BoxW(cropCall.build), cropCall.zoom)
        /\ cropCall.rawH = RDiv(BoxH(cropCall.build), cropCall.zoom)
        /\ CallAtDoubleZoom.rawW = RDiv(cropCall.rawW, R(2))
        /\ CallAtDoubleZoom.rawH = RDiv(cropCall.rawH, R(2))

C7_Witness ==
    /\ CallOnImage
    /\ cropCall.build = "current"
    /\ cropCall.zoom = Frac(3, 2)
    /\ cropCall.pos # Origin

RatioAndArea ==
    /\ RMul(cropCall.width, R(45)) = RMul(cropCall.height, R(35))
    /\ RMul(cropCall.width, cropCall.height) =
           RDiv(RMul(BoxW(cropCall.build), BoxH(cropCall.build)),
                RMul(cropCall.zoom, cropCall.zoom))

\* C8 as stated: every resolved rectangle has width:height = 35:45 and area
\* cropBoxArea / zoom^2
C8_RatioAndAreaAlways == CallOnImage => RatioAndArea

\* neither Math.min of the clamping Cropper cut the rectangle
Unclamped ==
    /\ RLe(cropCall.rawW, R(cropCall.nW))
    /\ RLe(cropCall.rawH, R(cropCall.nH))

\* C8 amended: the rectangle has width:height = 35:45 and area
\* cropBoxArea / zoom^2 in Cropper.tsx, and in the clamping Cropper whenever
\* cropBox / zoom does not exceed the natural size on either axis
C8_RatioAndAreaUnclamped ==
    (CallOnImage /\ (cropCall.build = "current" \/ Unclamped)) => RatioAndArea

C8_Witness ==
    /\ CallOnImage
    /\ cropCall.nW = 2000
    /\ cropCall.nH = 3000
    /\ cropCall.zoom = Frac(3, 2)
    /\ cropCall.pos = [x |-> R(0), y |-> R(-50)]

\* C9: with a rendered width that is zero or negative no rectangle is handed
\* to getCroppedImg and no cropped image reaches onCropComplete
C9_InvalidGeometryRefused ==
    /\ cropCall.made => RGt(cropCall.renderedWidth, R(0))
    /\ cropPc = "delivered" => RGt(cropCall.renderedWidth, R(0))

-----------------------------------------------------------------------------
(* Properties of the sheet compositor, checked under SpecSheet *)

InsideCanvas(c) ==
    /\ RGe(c.x, R(0))
    /\ RGe(c.y, R(0))
    /\ RLe(RAdd(c.x, c.w), R(SHEET_WIDTH))
    /\ RLe(RAdd(c.y, c.h), R(SHEET_HEIGHT))

Overlap(a, b) ==
    /\ RLt(a.x, RAdd(b.x, b.w))
    /\ RLt(b.x, RAdd(a.x, a.w))
    /\ RLt(a.y, RAdd(b.y, b.h))
    /\ RLt(b.y, RAdd(a.y, a.h))

\* C10: the photo cells drawn are pairwise non-overlapping and each lies
\* inside the 1800 x 1200 canvas; a resolved sheet holds 8 of them
C10_CellsDisjointInsideCanvas ==
    /\ SHEET_WIDTH = 1800 /\ SHEET_HEIGHT = 1200
    /\ \A k \in 1..Len(cells) : InsideCanvas(cells[k])
    /\ \A k, l \in 1..Len(cells) : k # l => ~Overlap(cells[k], cells[l])
    /\ sheetPc = "resolved" => Len(cells) = 8

C10_Witness == sheetPc = "resolved" /\ Len(cells) = 8

\* the margins the drawn block leaves on the four sides of the canvas
LeftMargin   == cells[1].x
TopMargin    == cells[1].y
RightMargin  ==
    RSub(R(SHEET_WIDTH), RAdd(cells[Len(cells)].x, cells[Len(cells)].w))
BottomMargin ==
    RSub(R(SHEET_HEIGHT), RAdd(cells[Len(cells)].y, cells[Len(cells)].h))

\* C11: the content block is centred: START_X equals the right margin
\* SHEET_WIDTH - START_X - TOTAL_CONTENT_WIDTH, START_Y equals the bottom
\* margin, the block plus its two margins is the sheet size on each axis,
\* and the cells of a finished sheet leave exactly those margins
C11_ContentCentred ==
    /\ START_X = RSub(RSub(R(SHEET_WIDTH), START_X), TOTAL_CONTENT_WIDTH)
    /\ START_Y = RSub(RSub(R(SHEET_HEIGHT), START_Y), TOTAL_CONTENT_HEIGHT)
    /\ RAdd(TOTAL_CONTENT_WIDTH, RMul(R(2), START_X)) = R(SHEET_WIDTH)
    /\ RAdd(TOTAL_CONTENT_HEIGHT, RMul(R(2), START_Y)) = R(SHEET_HEIGHT)
    /\ sheetPc = "resolved" =>
         /\ LeftMargin = START_X /\ RightMargin = START_X
         /\ TopMargin = START_Y /\ BottomMargin = START_Y

C11_Witness ==
    /\ sheetPc = "resolved"
    /\ cells[1].x = START_X
    /\ cells[Len(cells)].row = ROWS - 1
    /\ cells[Len(cells)].col = COLS - 1

-----------------------------------------------------------------------------
(* Properties of the tone mapper, checked under SpecCurves *)

IdentitySettings ==
    /\ settings.all \in IdentityCurve
    /\ settings.red \in IdentityCurve
    /\ settings.green \in IdentityCurve
    /\ settings.blue \in IdentityCurve

\* C12: with the identity curve on all four channels applyCurves leaves the
\* R, G and B bytes of every pixel unchanged; whatever the curves, the alpha
\* byte of every pixel is unchanged and no pixel is added or lost
C12_IdentityAndAlpha ==
    curvesPc = "resolved" =>
        /\ Len(data) = Len(curveImg.data)
        /\ \A k \in 1..Len(data) : (k - 1) % 4 = 3 => data[k] = curveImg.data[k]
        /\ IdentitySettings => data = curveImg.data

C12_Witness ==
    /\ curvesPc = "resolved"
    /\ IdentitySettings
    /\ Len(data) = 8
    /\ data[4] = 128

\* C13: each output colour byte is lutAll[lutC[v]] for its own channel C:
\* the channel LUT is applied first and the master LUT to its result
C13_ChannelThenMaster ==
    curvesPc = "resolved" =>
        \A k \in 1..Len(data) :
            LET v == curveImg.data[k]
            IN  /\ (k - 1) % 4 = 0 =>
                     data[k] = generateLUT(settings.all)[generateLUT(settings.red)[v]]
                /\ (k - 1) % 4 = 1 =>
                     data[k] = generateLUT(settings.all)[generateLUT(settings.green)[v]]
                /\ (k - 1) % 4 = 2 =>
                     data[k] = generateLUT(settings.all)[generateLUT(settings.blue)[v]]

\* a run in which the order of the two lookups shows: inverse master over a
\* lifted red channel maps 0 to 155, the other order would give 255
C13_Witness ==
    /\ curvesPc = "resolved"
    /\ settings.all \in InverseCurve
    /\ settings.red = <<[x |-> 0, y |-> 100], [x |-> 255, y |-> 255]>>
    /\ curveImg.data[1] = 0
    /\ data[1] = 155

-----------------------------------------------------------------------------
(* Properties of the histogram analyzer, checked under SpecHist *)

\* h[lo] + ... + h[hi], by halves
RECURSIVE SumRange(_, _, _)
SumRange(h, lo, hi) ==
    IF lo = hi THEN h[lo]
    ELSE SumRange(h, lo, (lo + hi) \div 2) + SumRange(h, (lo + hi) \div 2 + 1, hi)

\* round(0.299 R + 0.587 G + 0.114 B) in integer arithmetic
Luma(c) == (2 * (299 * c[1] + 587 * c[2] + 114 * c[3]) + 1000) \div 2000

\* the number of sampled pixels whose luma is b
RECURSIVE PixelsAt(_, _, _)
PixelsAt(runs, k, b) ==
    IF k > Len(runs) THEN 0
    ELSE (IF Luma(runs[k].c) = b THEN runs[k].n ELSE 0) + PixelsAt(runs, k + 1, b)

\* C14: every sampled pixel is counted in exactly the bucket
\* round(0.299 R + 0.587 G + 0.114 B), which lies in 0..255, so the bucket
\* counts sum to the number of pixels of the sampling canvas
C14_OneBucketPerPixel ==
    histPc = "resolved" =>
        LET runs == SampledRuns(histImg, histCanvas)
        IN  /\ \A k \in 1..Len(runs) : Luma(runs[k].c) \in 0..255
            /\ \A b \in 0..255 : histogram[b] = PixelsAt(runs, 1, b)
            /\ SumRange(histogram, 0, 255) = histCanvas.w * histCanvas.h

\* two pixels of different luma, red (76) and green (150)
C14_Witness ==
    /\ histPc = "resolved"
    /\ histCanvas = [w |-> 2, h |-> 1]
    /\ histogram[76] = 1
    /\ histogram[150] = 1

SolidImage == Len(histImg.runs) = 1

\* C15: the result has 256 values, each in [0, 1]; for an image of one
\* colour of luma L it is 1 at L and 0 everywhere else
C15_NormalisedSpike ==
    histPc = "resolved" =>
        /\ DOMAIN histResult = 0..255
        /\ \A b \in 0..255 : RGe(histResult[b], R(0)) /\ RLe(histResult[b], R(1))
        /\ SolidImage =>
             \A b \in 0..255 :
                 histResult[b] = IF b = Luma(histImg.runs[1].c) THEN R(1) ELSE R(0)

\* a 512 x 256 green image, sampled at 256 x 128
C15_Witness ==
    /\ histPc = "resolved"
    /\ histImg.w = 512
    /\ histCanvas = [w |-> 256, h |-> 128]
    /\ histogram[150] = 32768
    /\ histResult[150] = R(1)

\* C17: once the load or error event of calculateHistogram has been handled
\* the promise is settled: rejected when the decode failed or no 2D context
\* was acquired (and then nothing was produced), resolved with the result
\* otherwise
C17_SettlesOnce ==
    histPc # "start" =>
        IF histImg.ok /\ histCtx
        THEN histPc = "resolved"
        ELSE histPc = "rejected" /\ histResult = NoResult

-----------------------------------------------------------------------------
(* Properties of the rasterizer, checked under SpecRaster *)

\* the cap of the getCroppedImg version called
CapOf(op) == IF op = "getCroppedImg1024" THEN MAX_HEIGHT_1024 ELSE MAX_HEIGHT

CropCallResolved ==
    /\ rasterPc = "resolved"
    /\ rasterOp \in {"getCroppedImg", "getCroppedImg1024"}

\* C16: the output of getCroppedImg has its longer side capped: neither the
\* output width nor the output height exceeds the cap of the version called,
\* and width and height are scaled by the same factor
C16_LongerSideCapped ==
    CropCallResolved =>
        /\ rasterOut.w <= CapOf(rasterOp)
        /\ rasterOut.h <= CapOf(rasterOp)
        /\ RMul(rasterTarget.width, R(rasterIn.height))
             = RMul(rasterTarget.height, R(rasterIn.width))

-----------------------------------------------------------------------------
(* Properties of the App, checked under SpecApp *)

\* C18: generatePassportSheet resolves only with all 8 cells drawn and
\* rejects with none drawn, and finalSheet is always null or a sheet whose
\* canvas held the 8 cells when it was serialised
C18_SheetAllOrNothing ==
    /\ sheetPc = "resolved" => Len(cells) = ROWS * COLS
    /\ sheetPc = "rejected" => cells = <<>>
    /\ finalSheet # Null => finalSheet.k = "sheet" /\ finalSheet.cells = ROWS * COLS

\* a sheet published after a composition that failed first: the fallback
C18_Witness ==
    /\ state = "PREVIEW"
    /\ finalSheet = Sheet(Cropped(1), 8)
    /\ error = AI_FAILED_MESSAGE

\* C19: once the flow is abandoned, and as long as no new image is selected,
\* the completion of a crop or processing request still in flight changes
\* nothing: state stays UPLOAD and croppedImage, processedImage and
\* finalSheet stay null
C19_StaleResultDiscarded ==
    originalImage = Null =>
        /\ state = "UPLOAD"
        /\ croppedImage = Null
        /\ processedImage = Null
        /\ finalSheet = Null

-----------------------------------------------------------------------------
(* Properties of the AI service, checked under SpecAi *)

\* the invocation has returned or thrown
AiSettled == aiPc \in {"returned", "threw"}

\* retries happen only after a "429" error and at most MAX_RETRIES times, so
\* at most 4 API calls are issued; the wait before retry k is 2000 * 2^k ms
BoundedBackoff ==
    /\ retryCount <= MAX_RETRIES
    /\ apiCalls <= MAX_RETRIES + 1
    /\ Len(sleeps) <= MAX_RETRIES
    /\ \A k \in 1..Len(sleeps) :
         /\ sleeps[k] = 2000 * 2 ^ (k - 1)
         /\ attempts[k] # Undefined /\ "429" \in attempts[k]
    /\ apiCalls <= Len(sleeps) + 1

\* C20: processBackground backs off exponentially and boundedly, and every
\* invocation terminates provided each API call settles
C20_BoundedBackoffTerminates == []BoundedBackoff /\ <>AiSettled

\* three retries, then the fourth "429" is surfaced as the rate-limit error
C20_Witness ==
    /\ aiPc = "threw"
    /\ apiCalls = 4
    /\ sleeps = <<2000, 4000, 8000>>
    /\ thrown = RATE_LIMIT_MESSAGE

\* the message marks an authentication failure
AuthFailure(message) ==
    Includes(message, "403") \/ Includes(message, "API_KEY_INVALID")

\* C21: an error whose message contains "403" or "API_KEY_INVALID" is never
\* retried, whatever the retry count: it is the last error caught, no sleep
\* and no API call follow it, and "Invalid API Key" is what is thrown
C21_AuthFailureNeverRetried ==
    \A k \in 1..Len(attempts) :
        AuthFailure(attempts[k]) =>
            /\ k = Len(attempts)
            /\ aiPc = "threw"
            /\ thrown = INVALID_KEY_MESSAGE
            /\ Len(sleeps) = k - 1
            /\ apiCalls = k

-----------------------------------------------------------------------------
(* Further properties of the tone mapper, checked under SpecCurves *)

\* C22: once the load or error event of applyCurves has been handled with an
\* empty curve among the four, the promise is rejected and no output image
\* has been produced
C22_EmptyCurveRejects ==
    (curvesPc # "start" /\ SomeCurveEmpty(settings)) =>
        curvesPc = "rejected" /\ data = <<>>

-----------------------------------------------------------------------------
(* Further properties of the histogram analyzer, checked under SpecHist *)

\* C23: for every source image with positive dimensions the sampling canvas
\* of calculateHistogram is assigned a width and a height that are integers
\* of at least 1
C23_PositiveRasterDims ==
    (histPc # "start" /\ histImg.ok /\ histImg.w >= 1 /\ histImg.h >= 1) =>
        /\ histCanvas.w \in Nat /\ histCanvas.w >= 1
        /\ histCanvas.h \in Nat /\ histCanvas.h >= 1

-----------------------------------------------------------------------------
(* Crop parity with the preview, checked under SpecCrop.  The transform    *)
(* mode of the rasterizer (renderTransformed) is described in the          *)
(* specification only; it is modelled from that description.               *)

VAdd(a, b)   == [x |-> RAdd(a.x, b.x), y |-> RAdd(a.y, b.y)]
VSub(a, b)   == [x |-> RSub(a.x, b.x), y |-> RSub(a.y, b.y)]
VScale(k, a) == [x |-> RMul(k, a.x), y |-> RMul(k, a.y)]

\* rotations whose sine and cosine are exact
QuarterTurns == {0, 90, 180, 270}

Rotate(v, deg) ==
    CASE deg = 0   -> v
      [] deg = 90  -> [x |-> RNeg(v.y), y |-> v.x]
      [] deg = 180 -> [x |-> RNeg(v.x), y |-> RNeg(v.y)]
      [] OTHER     -> [x |-> v.y, y |-> RNeg(v.x)]

\* transform mode: where the source point s lands on the output canvas under
\* translate(canvas centre), scale(outputSize / cropWindowSize),
\* translate(panOffset), rotate(rotationDegrees), scale(zoomFactor), image
\* drawn centred at the origin
renderTransformed(s, nW, nH, view, outputSize, cropWindow) ==
    LET centred == VSub(s, [x |-> RDiv(R(nW), R(2)), y |-> RDiv(R(nH), R(2))])
        zoomed  == VScale(view.zoomFactor, centred)
        rotated == Rotate(zoomed, view.rotationDegrees)
        panned  == VAdd(rotated, view.panOffset)
        scaled  == VScale(RDiv(outputSize.width, cropWindow.width), panned)
    IN  VAdd(scaled, [x |-> RDiv(outputSize.width, R(2)),
                      y |-> RDiv(outputSize.height, R(2))])

\* the preview: the <img> is centred in the container by the flex wrapper and
\* carries transform: translate(position) scale(zoom) about its centre; the
\* result is the position of the source point s relative to the top left
\* corner of the centred crop box
PreviewInBox(s, nW, nH, z, pos, cont) ==
    LET centre   == [x |-> RDiv(R(cont.w), R(2)), y |-> RDiv(R(cont.h), R(2))]
        onScreen == VAdd(VAdd(centre, pos),
                         VScale(z, VSub(s, [x |-> RDiv(R(nW), R(2)),
                                            y |-> RDiv(R(nH), R(2))])))
        boxLeft  == RDiv(RSub(R(cont.w), CROP_BOX_WIDTH), R(2))
        boxTop   == RDiv(RSub(R(cont.h), R(CROP_BOX_HEIGHT)), R(2))
    IN  VSub(onScreen, [x |-> boxLeft, y |-> boxTop])

\* ctx.drawImage(image, x, y, width, height, 0, 0, targetWidth, targetHeight):
\* where the source point s lands on the output canvas
BatchMap(s, rect, target) ==
    [x |-> RMul(RSub(s.x, rect.x), RDiv(target.width, rect.width)),
     y |-> RMul(RSub(s.y, rect.y), RDiv(target.height, rect.height))]

\* three source points that fix an affine map: three corners of the image
Corners(nW, nH) ==
    { [x |-> R(0), y |-> R(0)], [x |-> R(nW), y |-> R(0)], [x |-> R(0), y |-> R(nH)] }

CropWindow == [width |-> CROP_BOX_WIDTH, height |-> R(CROP_BOX_HEIGHT)]

ViewOf(call, deg) ==
    [zoomFactor |-> call.zoom, rotationDegrees |-> deg, panOffset |-> call.pos]

\* C24: the output of the crop is the preview seen through the crop box,
\* enlarged by outputSize / cropWindowSize: the rectangle read of Cropper.tsx
\* and the ordered composition translate(centre), scale(output / window),
\* translate(pan), rotate, scale(zoom) without rotation put every source
\* point where the preview shows it, and a rotation turns the image about
\* the panned image centre without moving that centre
C24_BatchMatchesPreview ==
    (CallOnImage /\ cropCall.build = "current") =>
        LET target == CropTarget(cropCall, MAX_HEIGHT)
            k      == RDiv(target.width, CROP_BOX_WIDTH)
            mid    == [x |-> RDiv(R(cropCall.nW), R(2)), y |-> RDiv(R(cropCall.nH), R(2))]
            corner == [x |-> R(0), y |-> R(0)]
            Shown(s) == VScale(k, PreviewInBox(s, cropCall.nW, cropCall.nH,
                                               cropCall.zoom, cropCall.pos, container))
            T(s, deg) == renderTransformed(s, cropCall.nW, cropCall.nH,
                                           ViewOf(cropCall, deg), target, CropWindow)
        IN  /\ \A s \in Corners(cropCall.nW, cropCall.nH) :
                 /\ BatchMap(s, cropCall, target) = Shown(s)
                 /\ T(s, 0) = Shown(s)
            /\ \A deg \in QuarterTurns :
                 /\ T(mid, deg) = Shown(mid)
                 /\ VSub(T(corner, deg), Shown(mid))
                      = Rotate(VSub(Shown(corner), Shown(mid)), deg)

\* a delivered crop of a panned and zoomed image
C24_Witness ==
    /\ cropPc = "delivered"
    /\ cropCall.build = "current"
    /\ cropCall.nW = 2000
    /\ cropCall.pos.x # R(0)
    /\ cropCall.zoom # R(1)
    /\ cropped.w > 0

-----------------------------------------------------------------------------
(* Further properties of the LUT engine, checked under SpecLut *)

\* the pair the scan stops at for an i inside the x-range of the sorted
\* points: the leftmost adjacent pair around i, or the single point twice
BracketOf(sorted, i) ==
    IF Len(sorted) = 1 THEN <<sorted[1], sorted[1]>>
    ELSE LET j == CHOOSE j \in 1..(Len(sorted) - 1) :
                      /\ sorted[j].x <= i /\ i <= sorted[j + 1].x
                      /\ \A k \in 1..(j - 1) :
                             ~(sorted[k].x <= i /\ i <= sorted[k + 1].x)
         IN  <<sorted[j], sorted[j + 1]>>

\* C25: for every i inside the x-range of the sorted points the entry is
\* computed from the first adjacent pair (p1, p2) with p1.x <= i <= p2.x:
\* p1.y when p1.x = p2.x, otherwise the interpolated value clamped to
\* [0,255] and truncated
C25_FirstBracketInterpolated ==
    lutState = "done" =>
        LET sorted == SortByX(points)
        IN  \A i \in 0..255 :
                (sorted[1].x <= i /\ i <= sorted[Len(sorted)].x) =>
                    LET pair == BracketOf(sorted, i)
                        p1   == pair[1]
                        p2   == pair[2]
                    IN  IF p1.x = p2.x
                        THEN lut[i] = p1.y
                        ELSE lut[i] = Trunc(Clamp255(
                                 RAdd(R(p1.y),
                                      RMul(Frac(i - p1.x, p2.x - p1.x),
                                           R(p2.y - p1.y)))))

\* the orderings of an array of points: the same points under every
\* rearrangement of the indices
OrderingsOf(pts) ==
    LET n == Len(pts)
        shuffles == {f \in [1..n -> 1..n] :
                        \A a, b \in 1..n : a # b => f[a] # f[b]}
    IN  {[k \in 1..n |-> pts[f[k]]] : f \in shuffles}

\* C26 as stated: every ordering of the points gives the same LUT, also when
\* points share an x value
C26_OrderIrrelevant ==
    lutState = "done" =>
        \A q \in OrderingsOf(points) : generateLUT(q) = lut

\* a call leaves the caller's array as it was
CallerArrayKept == [][lutState' # lutState => points' = points]_vars

\* C26: for points with pairwise distinct x every ordering gives the same
\* LUT, and generateLUT does not modify the caller's array
C26_OrderIrrelevantDistinctXs ==
    /\ [](( lutState = "done" /\ DistinctXs) =>
              \A q \in OrderingsOf(points) : generateLUT(q) = lut)
    /\ CallerArrayKept

\* a LUT of three points with distinct x, handed over out of order
C26_Witness ==
    /\ lutState = "done"
    /\ Len(points) = 3
    /\ DistinctXs
    /\ points[1].x > points[2].x

-----------------------------------------------------------------------------
(* Further properties of the sheet compositor, checked under SpecSheet *)

\* millimetres at 300 dots per inch
MmToPx(mm) == RDiv(R(mm * 300 * 10), R(254))

\* C27: the 1800 x 1200 canvas is filled before any photo is drawn; a
\* resolved sheet carries exactly 8 drawings of the one source photo, in 4
\* columns and 2 rows, each 35 mm x 45 mm whatever the size of the source,
\* and neighbouring cell origins are one cell size plus 3 mm apart
C27_FilledThenEightCells ==
    /\ SHEET_WIDTH = 1800 /\ SHEET_HEIGHT = 1200
    /\ cells # <<>> => canvasFilled
    /\ sheetPc = "resolved" =>
           /\ Len(cells) = 8
           /\ {<<cells[k].row, cells[k].col>> : k \in 1..Len(cells)}
                  = (0..1) \X (0..3)
    /\ \A k \in 1..Len(cells) :
           /\ cells[k].srcW = photo.w /\ cells[k].srcH = photo.h
           /\ cells[k].w = MmToPx(35) /\ cells[k].h = MmToPx(45)
    /\ \A k, l \in 1..Len(cells) :
           /\ (cells[k].row = cells[l].row /\ cells[l].col = cells[k].col + 1)
                  => /\ RSub(cells[l].x, cells[k].x) = RAdd(cells[k].w, MmToPx(3))
                     /\ cells[l].y = cells[k].y
           /\ (cells[k].col = cells[l].col /\ cells[l].row = cells[k].row + 1)
                  => /\ RSub(cells[l].y, cells[k].y) = RAdd(cells[k].h, MmToPx(3))
                     /\ cells[l].x = cells[k].x

\* a resolved sheet of a square source photo
C27_Witness ==
    /\ sheetPc = "resolved"
    /\ photo.w = 100 /\ photo.h = 100
    /\ canvasFilled
    /\ Len(cells) = 8

-----------------------------------------------------------------------------
(* Further properties of the App component, checked under SpecApp *)

\* C28: the screen of the current state always has the image it renders:
\* CROP has originalImage, PROCESS has croppedImage, PREVIEW has finalSheet
\* and processedImage
C28_ScreenHasItsImage ==
    /\ state = "CROP" => originalImage # Null
    /\ state = "PROCESS" => croppedImage # Null
    /\ state = "PREVIEW" => (finalSheet # Null /\ processedImage # Null)

\* the step in which the fallback of a handleProcess run settles
FallbackSettles == run.pc = "fallback" /\ run'.pc = "idle"

\* C29: when the fallback sheet resolves the app is in PREVIEW with
\* processedImage = croppedImage, a finalSheet and the warning; when it
\* rejects the app is still in PROCESS, finalSheet is as it was and the
\* failure message is set
C29_FallbackOutcome ==
    [][FallbackSettles =>
          IF sheetPc = "resolved"
          THEN /\ state' = "PREVIEW"
               /\ processedImage' = croppedImage'
               /\ processedImage' # Null
               /\ finalSheet' # Null
               /\ error' = AI_FAILED_MESSAGE
          ELSE /\ state' = "PROCESS"
               /\ finalSheet' = finalSheet
               /\ error' = SHEET_FAILED_MESSAGE]_vars

\* a handleProcess run begins
RunStarts == run' # run /\ run'.pc = "ai"

\* C30: a run that has set isProcessing eventually sets it back to false,
\* isProcessing is true exactly while a run is in flight, and a run begins
\* only when none is in flight
C30_ProcessingEndsOneRun ==
    /\ isProcessing ~> ~isProcessing
    /\ [](isProcessing <=> run.pc # "idle")
    /\ [][RunStarts => (~isProcessing /\ run.pc = "idle")]_vars

\* a run has ended by the double failure and isProcessing is false again
C30_Witness ==
    /\ ~isProcessing
    /\ run = NoRun
    /\ error = SHEET_FAILED_MESSAGE
    /\ state = "PROCESS"

====
